---- MODULE Spec2Model ----
(***************************************************************************)
(* Model of the vdk-torrent-client core: the bencode codec                 *)
(* (src/bencode/src/lib.rs), the metainfo binder                           *)
(* (src/torrent-client/src/file/mod.rs) and the peer connection            *)
(* (src/torrent-client/src/peer/connection.rs) with the worker that uses   *)
(* it (src/torrent-client/src/client/worker.rs).                           *)
(*                                                                         *)
(* Bytes are the integers 0..255; a byte slice is a sequence of bytes.     *)
(* A Result is a record with a field ok; Ok carries val, Err carries err.  *)
(***************************************************************************)
EXTENDS Integers, Sequences, FiniteSets, TLC

VARIABLES
    \* the codec pipeline: one input slice, decoded, encoded again, decoded again;
    \* whether the build checks integer overflow (debug-assertions or
    \* overflow-checks on: an overflowing + panics; off: it wraps)
    data, decoded, encoded, redecoded, bpc, overflow_checks,
    \* the metainfo binder: two encodings of one info dictionary and their Infos
    mdata, minfo,
    \* the handshake codec: a message, 68 bytes, where they come from, the parse
    hmsg, hwire, hsrc, hparsed,
    \* one worker on one peer: the host's byte order, the torrent's info hash and
    \* the client's id; the transport (all the bytes the peer sends, how many were
    \* read, the bytes written, the outcome of the last transport call); the
    \* handshake buffer and result; the worker's position, its choked flag and the
    \* results of its recv calls
    host_order, torrent_info_hash, client_id, peer_out, rpos, sent, io, hs_bytes,
    hresult, wpc, choked, received,
    \* the message codec: the host's byte order, a message, the bytes of a frame
    \* stream, where they come from, the result of recv on them, the result of
    \* send
    fhost, fmsg, fwire, fsrc, fres, fsent,
    \* one announce: the announce URL, what the HTTP round trip gives, the
    \* requests sent, the position in announce, its result
    turl, thttp, tsent, tpc, tres,
    \* one BitField: its byte, the last get_bit (position and bit), whether a call
    \* panicked; the iterator made from it: its byte, its position, the items it
    \* yielded, whether next returned None
    bf_value, got, bf_panicked, bit_field, position, yielded, exhausted,
    \* one session: the Config's connection_numbers, the position in main's
    \* sequence (Config, Client::new, download), the announces made, the result of
    \* the announce, the peers given to Leeching::new, the result of download
    connection_numbers, cpc, announces, torrent_info, leeched, download_result,
    \* the worker pool: the position of Leeching::new, the peers it was given, the
    \* channel's queue (indices into the peers), the threads spawned and joined,
    \* the holder of the receiver's mutex (0: free), each worker's position, peer
    \* and choked flag, and the pops (worker, peer) in order
    lpc, peers_given, free_peers, spawned, joined, guard, peering, taken

bvars == <<data, decoded, encoded, redecoded, bpc, overflow_checks>>
mvars == <<mdata, minfo>>
hvars == <<hmsg, hwire, hsrc, hparsed>>
pvars == <<host_order, torrent_info_hash, client_id, peer_out, rpos, sent, io,
           hs_bytes, hresult, wpc, choked, received>>
fvars == <<fhost, fmsg, fwire, fsrc, fres, fsent>>
tvars == <<turl, thttp, tsent, tpc, tres>>
uvars == <<bf_value, got, bf_panicked, bit_field, position, yielded, exhausted>>
cvars == <<connection_numbers, cpc, announces, torrent_info, leeched, download_result>>
lvars == <<lpc, peers_given, free_peers, spawned, joined, guard, peering, taken>>
vars == <<bvars, mvars, hvars, pvars, fvars, tvars, uvars, cvars, lvars>>

(***************************************************************************)
(* Bytes and text                                                          *)
(***************************************************************************)

\* ASCII code of the characters the sources name in byte literals (b'i', b":" ...).
Ord(c) ==
    CASE c = " " -> 32  [] c = "+" -> 43  [] c = "-" -> 45  [] c = ":" -> 58
      [] c = "0" -> 48  [] c = "1" -> 49  [] c = "2" -> 50  [] c = "3" -> 51
      [] c = "4" -> 52  [] c = "5" -> 53  [] c = "6" -> 54  [] c = "7" -> 55
      [] c = "8" -> 56  [] c = "9" -> 57
      [] c = "B" -> 66  [] c = "T" -> 84
      [] c = "a" -> 97  [] c = "b" -> 98  [] c = "c" -> 99  [] c = "d" -> 100
      [] c = "e" -> 101 [] c = "f" -> 102 [] c = "g" -> 103 [] c = "h" -> 104
      [] c = "i" -> 105 [] c = "l" -> 108 [] c = "m" -> 109 [] c = "n" -> 110
      [] c = "o" -> 111 [] c = "p" -> 112 [] c = "r" -> 114 [] c = "s" -> 115
      [] c = "t" -> 116 [] c = "u" -> 117 [] c = "v" -> 118 [] c = "x" -> 120
      [] c = "." -> 46

\* The byte string of a tuple of one-character strings.
Str(cs) == [k \in 1..Len(cs) |-> Ord(cs[k])]

IsDigit(b) == b >= 48 /\ b <= 57

\* data[from..] of a slice, 0-based like the source.
SliceFrom(s, from) == SubSeq(s, from + 1, Len(s))

\* data[from..to] of a slice, 0-based and half-open like the source.
Slice(s, from, to) == SubSeq(s, from + 1, to)

Ok(v) == [ok |-> TRUE, val |-> v]
Err(e) == [ok |-> FALSE, err |-> e]

(***************************************************************************)
(* Vec<u8> ordering and BTreeMap<Vec<u8>, Value>                           *)
(* A map is the sequence of its entries [k, v] in ascending key order,     *)
(* which is the order a BTreeMap iterates in.                              *)
(***************************************************************************)

\* a < b for Vec<u8>: lexicographic, byte-wise unsigned.
RECURSIVE ByteLess(_, _)
ByteLess(a, b) ==
    IF b = <<>> THEN FALSE
    ELSE IF a = <<>> THEN TRUE
    ELSE IF a[1] # b[1] THEN a[1] < b[1]
    ELSE ByteLess(Tail(a), Tail(b))

\* Insertion that ignores the key order: the entry goes to the end (a replaced
\* key keeps its place).
BTreeInsertUnordered(m, key, value) ==
    IF \E j \in 1..Len(m) : m[j].k = key
    THEN [j \in 1..Len(m) |-> IF m[j].k = key THEN [k |-> key, v |-> value] ELSE m[j]]
    ELSE Append(m, [k |-> key, v |-> value])

\* BTreeMap::insert: replaces the value of an equal key, else inserts the entry at
\* its place in the key order.
BTreeInsert(m, key, value) ==
    IF \E j \in 1..Len(m) : m[j].k = key
    THEN [j \in 1..Len(m) |-> IF m[j].k = key THEN [k |-> key, v |-> value] ELSE m[j]]
    ELSE LET n == Cardinality({j \in 1..Len(m) : ByteLess(m[j].k, key)})
         IN  SubSeq(m, 1, n) \o <<[k |-> key, v |-> value]>> \o SubSeq(m, n + 1, Len(m))

BTreeHas(m, key) == \E j \in 1..Len(m) : m[j].k = key

\* BTreeMap::get: the value of a key the map holds.
BTreeGet(m, key) == m[CHOOSE j \in 1..Len(m) : m[j].k = key].v

\* BTreeMap::remove: the map without the key.
BTreeRemove(m, key) == SelectSeq(m, LAMBDA e : e.k # key)

(***************************************************************************)
(* Value: Int(i64) | String(Vec<u8>) | List(Vec<Value>) | Dict(BTreeMap)   *)
(***************************************************************************)

\* A Value is the pair of its variant's name and the variant's payload.
ValueInt(n) == <<"Int", n>>
ValueString(s) == <<"String", s>>
ValueList(l) == <<"List", l>>
ValueDict(m) == <<"Dict", m>>

Tag(value) == value[1]
Payload(value) == value[2]

(***************************************************************************)
(* Decimal text <-> integer (i64::from_str, usize::from_str, to_string)    *)
(***************************************************************************)

\* The number a sequence of ASCII digits denotes.
RECURSIVE DigitsValue(_)
DigitsValue(ds) ==
    IF ds = <<>> THEN 0
    ELSE DigitsValue(SubSeq(ds, 1, Len(ds) - 1)) * 10 + (ds[Len(ds)] - 48)

RECURSIVE StripZeros(_)
StripZeros(ds) == IF ds # <<>> /\ ds[1] = 48 THEN StripZeros(Tail(ds)) ELSE ds

\* i64::MAX = 9223372036854775807 and -i64::MIN = 9223372036854775808 as digits.
I64MaxDigits == Str(<<"9","2","2","3","3","7","2","0","3","6","8","5","4","7","7","5","8","0","7">>)
I64MinDigits == Str(<<"9","2","2","3","3","7","2","0","3","6","8","5","4","7","7","5","8","0","8">>)

\* Magnitude ds (ASCII digits) exceeds the magnitude lim, both as numbers.
Exceeds(ds, lim) ==
    LET s == StripZeros(ds)
    IN  Len(s) > Len(lim) \/ (Len(s) = Len(lim) /\ ByteLess(lim, s))

\* i64::from_str on text made of digits and '-': an optional sign, then at least
\* one digit, and the number must fit in 64 bits.
I64FromStr(text) ==
    LET neg == text # <<>> /\ text[1] = Ord("-")
        ds  == IF neg THEN Tail(text) ELSE text
    IN  IF ds = <<>> \/ \E j \in 1..Len(ds) : ~IsDigit(ds[j])
        THEN Err("InvalidFormat")
        ELSE IF Exceeds(ds, IF neg THEN I64MinDigits ELSE I64MaxDigits)
        THEN Err("InvalidFormat")
        ELSE Ok(IF neg THEN 0 - DigitsValue(ds) ELSE DigitsValue(ds))

\* usize::MAX of a 64-bit target.
UsizeMaxDigits ==
    Str(<<"1","8","4","4","6","7","4","4","0","7","3","7","0","9","5","5","1","6","1","5">>)

\* usize::from_str on text made of digits: at least one digit, and a number
\* that fits usize.
UsizeFromStr(text) ==
    IF text = <<>> \/ \E j \in 1..Len(text) : ~IsDigit(text[j])
    THEN Err("InvalidFormat")
    ELSE IF Exceeds(text, UsizeMaxDigits) THEN Err("InvalidFormat")
    ELSE Ok(DigitsValue(text))

\* The decimal digits of a number less a small one (the number is the larger).
RECURSIVE DigitsMinus(_, _)
DigitsMinus(ds, n) ==
    IF n = 0 \/ ds = <<>> THEN ds
    ELSE LET last  == ds[Len(ds)] - 48
             front == SubSeq(ds, 1, Len(ds) - 1)
         IN  IF last >= (n % 10)
             THEN Append(DigitsMinus(front, n \div 10), 48 + last - (n % 10))
             ELSE Append(DigitsMinus(front, n \div 10 + 1), 58 + last - (n % 10))

\* a + b of two usize overflows, b given by its decimal digits.
AddOverflows(a, digits) == Exceeds(digits, StripZeros(DigitsMinus(UsizeMaxDigits, a)))

\* to_string of a non-negative integer: its decimal digits, no leading zeros.
RECURSIVE NatToString(_)
NatToString(n) ==
    IF n < 10 THEN <<48 + n>> ELSE Append(NatToString(n \div 10), 48 + (n % 10))

\* i64::to_string.
IntToString(n) == IF n < 0 THEN <<Ord("-")>> \o NatToString(0 - n) ELSE NatToString(n)

(***************************************************************************)
(* BencodeDecoder: every parse_* takes the decoder's remaining slice and   *)
(* whether the build checks integer overflow, and returns Err(e), or Ok    *)
(* with the parsed value and the slice left over (the new self.data). A    *)
(* panic is the result AddOverflow, which nothing catches.                 *)
(***************************************************************************)

OkRest(v, rest) == [ok |-> TRUE, val |-> v, rest |-> rest]

\* The panic of start_of_string + len in a build that checks overflow.
AddOverflow == Err("attempt to add with overflow")

Panicked(r) == ~r.ok /\ r.err = "attempt to add with overflow"

\* The scan loop of parse_str over the bytes from 0-based position num on: the
\* count of digits before the first ':' (or the end), or InvalidString.
RECURSIVE parse_str_scan(_, _, _)
parse_str_scan(d, num, len_str) ==
    IF num >= Len(d) THEN Ok(len_str)
    ELSE IF d[num + 1] = Ord(":") THEN Ok(len_str)
    ELSE IF IsDigit(d[num + 1]) THEN parse_str_scan(d, num + 1, len_str + 1)
    ELSE Err("InvalidString")

\* The length is told from its digits before it is used as a number: one that
\* does not fit usize is InvalidFormat; start_of_string + len beyond usize
\* panics in a build that checks overflow and wraps to an end before the start
\* in one that does not (get gives None); a length beyond the slice is
\* UnexpectedEOF.
parse_str(d, checks) ==
    LET scan == parse_str_scan(d, 0, 0)
    IN  IF ~scan.ok THEN scan
        ELSE LET len_str == scan.val
                 text    == Slice(d, 0, len_str)
                 start_of_string == len_str + 1
             IN  IF text = <<>> \/ Exceeds(text, UsizeMaxDigits) THEN UsizeFromStr(text)
                 ELSE IF AddOverflows(start_of_string, text)
                 THEN IF checks THEN AddOverflow ELSE Err("UnexpectedEOF")
                 ELSE IF Exceeds(text, NatToString(Len(d))) THEN Err("UnexpectedEOF")
                 ELSE LET len == UsizeFromStr(text)
                      IN  IF ~len.ok THEN len
                          ELSE IF start_of_string + len.val > Len(d)
                          THEN Err("UnexpectedEOF")
                          ELSE OkRest(Slice(d, start_of_string, start_of_string + len.val),
                                      SliceFrom(d, start_of_string + len.val))

\* The scan loop of parse_int: the count of the bytes taken as the number's text.
RECURSIVE parse_int_scan(_, _, _)
parse_int_scan(d, num, len) ==
    IF num >= Len(d) THEN Ok(len)
    ELSE LET byte == d[num + 1]
         IN  IF byte = Ord("i") /\ num = 0 THEN parse_int_scan(d, num + 1, len)
             ELSE IF IsDigit(byte) \/ (byte = Ord("-") /\ num = 1)
                  THEN parse_int_scan(d, num + 1, len + 1)
             ELSE IF byte = Ord("e") THEN Ok(len)
             ELSE Err("InvalidInteger")

parse_int(d) ==
    LET scan == parse_int_scan(d, 0, 0)
    IN  IF ~scan.ok THEN scan
        ELSE LET len == scan.val
             IN  IF 1 + len > Len(d) THEN Err("UnexpectedEOF")
                 ELSE LET ans == I64FromStr(Slice(d, 1, 1 + len))
                      IN  IF ~ans.ok THEN ans
                          ELSE IF len + 2 > Len(d) THEN Err("UnexpectedEOF")
                          ELSE OkRest(ans.val, SliceFrom(d, len + 2))

RECURSIVE parse(_, _), parse_list_loop(_, _, _), parse_dict_loop(_, _, _)
RECURSIVE data_after(_, _), data_after_list(_, _), data_after_dict(_, _)

\* The list loop with the end of the input taken as the end of the list.
parse_list_loop_unterminated(d, ans, checks) ==
    IF d = <<>> THEN OkRest(ans, <<>>)
    ELSE IF d[1] = Ord("e") THEN OkRest(ans, SliceFrom(d, 1))
    ELSE LET item == parse(d, checks)
         IN  IF ~item.ok THEN item
             ELSE parse_list_loop(item.rest, Append(ans, item.val), checks)

\* while *self.data.first().ok_or(InvalidList)? != b'e' { ans.push(self.parse()?) }
parse_list_loop(d, ans, checks) ==
    IF d = <<>> THEN Err("InvalidList")
    ELSE IF d[1] = Ord("e") THEN OkRest(ans, SliceFrom(d, 1))
    ELSE LET item == parse(d, checks)
         IN  IF ~item.ok THEN item
             ELSE parse_list_loop(item.rest, Append(ans, item.val), checks)

parse_list(d, checks) ==
    IF d # <<>> /\ d[1] = Ord("l") THEN parse_list_loop(SliceFrom(d, 1), <<>>, checks)
    ELSE Err("InvalidList")

\* while first != b'e': match (self.parse(), self.parse()): both calls are made,
\* the second on what the first left of self.data, before the match; anything
\* but (Ok(String(key)), Ok(value)) is InvalidDictionary, and a panic of either
\* call is not a result that the match sees.
parse_dict_loop(d, ans, checks) ==
    IF d = <<>> THEN Err("InvalidDictionary")
    ELSE IF d[1] = Ord("e") THEN OkRest(ans, SliceFrom(d, 1))
    ELSE LET key == parse(d, checks)
         IN  IF ~key.ok
             THEN IF Panicked(key) THEN key
                  ELSE IF checks /\ Panicked(parse(data_after(d, checks), checks))
                  THEN AddOverflow
                  ELSE Err("InvalidDictionary")
             ELSE LET value == parse(key.rest, checks)
                  IN  IF ~value.ok
                      THEN IF Panicked(value) THEN value ELSE Err("InvalidDictionary")
                      ELSE IF Tag(key.val) # "String" THEN Err("InvalidDictionary")
                      ELSE parse_dict_loop(value.rest,
                                           BTreeInsert(ans, Payload(key.val), value.val),
                                           checks)

parse_dict(d, checks) ==
    IF d # <<>> /\ d[1] = Ord("d") THEN parse_dict_loop(SliceFrom(d, 1), <<>>, checks)
    ELSE Err("InvalidDictionary")

\* r.map(Value::Int) and the like: the parsed payload under the variant's tag.
MapVal(r, variant) == IF r.ok THEN OkRest(<<variant, r.val>>, r.rest) ELSE r

parse(d, checks) ==
    IF d = <<>> THEN Err("UnexpectedEOF")
    ELSE IF d[1] = Ord("i") THEN MapVal(parse_int(d), "Int")
    ELSE IF d[1] = Ord("l") THEN MapVal(parse_list(d, checks), "List")
    ELSE IF d[1] = Ord("d") THEN MapVal(parse_dict(d, checks), "Dict")
    ELSE IF IsDigit(d[1]) THEN MapVal(parse_str(d, checks), "String")
    ELSE Err("InvalidFormat")

\* self.data when a call of parse that did not panic has returned: what follows
\* the value, or, after an error, what follows the part taken before it
\* (parse_int and parse_str take nothing when they fail; parse_list and
\* parse_dict have taken their first byte and the items read so far).
data_after(d, checks) ==
    IF d = <<>> THEN d
    ELSE IF d[1] = Ord("l") THEN data_after_list(SliceFrom(d, 1), checks)
    ELSE IF d[1] = Ord("d") THEN data_after_dict(SliceFrom(d, 1), checks)
    ELSE LET r == parse(d, checks) IN IF r.ok THEN r.rest ELSE d

data_after_list(d, checks) ==
    IF d = <<>> THEN d
    ELSE IF d[1] = Ord("e") THEN SliceFrom(d, 1)
    ELSE LET item == parse(d, checks)
         IN  IF item.ok THEN data_after_list(item.rest, checks) ELSE data_after(d, checks)

data_after_dict(d, checks) ==
    IF d = <<>> THEN d
    ELSE IF d[1] = Ord("e") THEN SliceFrom(d, 1)
    ELSE LET key         == parse(d, checks)
             after_key   == IF key.ok THEN key.rest ELSE data_after(d, checks)
             value       == parse(after_key, checks)
             after_value == IF value.ok THEN value.rest ELSE data_after(after_key, checks)
         IN  IF key.ok /\ Tag(key.val) = "String" /\ value.ok
             THEN data_after_dict(after_value, checks)
             ELSE after_value

\* from_slice: the value of the first complete encoding; what follows it is dropped.
from_slice(d, checks) == LET r == parse(d, checks) IN IF r.ok THEN Ok(r.val) ELSE r

(***************************************************************************)
(* BencodeEncoder: every encode_* returns the bytes it appends.            *)
(***************************************************************************)

RECURSIVE Concat(_)
Concat(ss) == IF ss = <<>> THEN <<>> ELSE Head(ss) \o Concat(Tail(ss))

\* An encoder that writes the digits of the magnitude only.
encode_int_unsigned(int) ==
    <<Ord("i")>> \o NatToString(IF int < 0 THEN 0 - int ELSE int) \o <<Ord("e")>>

encode_int(int) == <<Ord("i")>> \o IntToString(int) \o <<Ord("e")>>

encode_bytes(bytes) == NatToString(Len(bytes)) \o <<Ord(":")>> \o bytes

RECURSIVE encode(_)

\* An encoder that does not close the list.
encode_list_unterminated(list) ==
    <<Ord("l")>> \o Concat([j \in 1..Len(list) |-> encode(list[j])])

encode_list(list) ==
    <<Ord("l")>> \o Concat([j \in 1..Len(list) |-> encode(list[j])]) \o <<Ord("e")>>

\* An encoder that walks the map from its last entry to its first.
encode_dict_descending(dict) ==
    <<Ord("d")>>
    \o Concat([j \in 1..Len(dict) |->
                  encode_bytes(dict[Len(dict) + 1 - j].k) \o encode(dict[Len(dict) + 1 - j].v)])
    \o <<Ord("e")>>

encode_dict(dict) ==
    <<Ord("d")>>
    \o Concat([j \in 1..Len(dict) |-> encode_bytes(dict[j].k) \o encode(dict[j].v)])
    \o <<Ord("e")>>

encode(value) ==
    CASE Tag(value) = "Int"    -> encode_int(Payload(value))
      [] Tag(value) = "String" -> encode_bytes(Payload(value))
      [] Tag(value) = "List"   -> encode_list(Payload(value))
      [] Tag(value) = "Dict"   -> encode_dict(Payload(value))

into_vec(value) == encode(value)

(***************************************************************************)
(* Conversions out of a Value (impl TryFrom<Value> for ...)                *)
(***************************************************************************)

\* Value::name
ValueName(value) ==
    CASE Tag(value) = "Int"    -> "Integer"
      [] Tag(value) = "String" -> "String"
      [] Tag(value) = "List"   -> "List"
      [] Tag(value) = "Dict"   -> "Dictionary"

InvalidType(value, expected) == Err(<<"InvalidType", ValueName(value), expected>>)

BencodeInt_try_from(value) ==
    IF Tag(value) = "Int" THEN Ok(Payload(value)) ELSE InvalidType(value, "Integer")

BencodeString_try_from(value) ==
    IF Tag(value) = "String" THEN Ok(Payload(value)) ELSE InvalidType(value, "String")

BencodeList_try_from(value) ==
    IF Tag(value) = "List" THEN Ok(Payload(value)) ELSE InvalidType(value, "List")

BencodeDict_try_from(value) ==
    IF Tag(value) = "Dict" THEN Ok(Payload(value)) ELSE InvalidType(value, "Dictionary")

IsCont(b) == b >= 128 /\ b <= 191

\* String::from_utf8 accepts s: every byte starts or continues a well-formed
\* UTF-8 sequence.
RECURSIVE Utf8Valid(_)
Utf8Valid(s) ==
    IF s = <<>> THEN TRUE
    ELSE LET b == s[1]
             n == Len(s)
         IN  IF b < 128 THEN Utf8Valid(Tail(s))
             ELSE IF b >= 194 /\ b <= 223
                  THEN n >= 2 /\ IsCont(s[2]) /\ Utf8Valid(SubSeq(s, 3, n))
             ELSE IF b >= 224 /\ b <= 239
                  THEN /\ n >= 3
                       /\ IsCont(s[2]) /\ IsCont(s[3])
                       /\ (b = 224 => s[2] >= 160)
                       /\ (b = 237 => s[2] <= 159)
                       /\ Utf8Valid(SubSeq(s, 4, n))
             ELSE IF b >= 240 /\ b <= 244
                  THEN /\ n >= 4
                       /\ IsCont(s[2]) /\ IsCont(s[3]) /\ IsCont(s[4])
                       /\ (b = 240 => s[2] >= 144)
                       /\ (b = 244 => s[2] <= 143)
                       /\ Utf8Valid(SubSeq(s, 5, n))
             ELSE FALSE

\* impl TryFrom<Value> for String: the bytes of a string value that is UTF-8.
String_try_from(value) ==
    LET bytes == BencodeString_try_from(value)
    IN  IF ~bytes.ok THEN bytes
        ELSE IF ~Utf8Valid(bytes.val) THEN Err(<<"InvalidUTF8">>)
        ELSE bytes

(***************************************************************************)
(* Metainfo binder: Info::from_bencode and File::from_bencode.             *)
(* A PathBuf is the byte string of the path; a Sha1 digest is the pair of  *)
(* the word "sha1" and the bytes digested (two digests are equal exactly   *)
(* when the bytes are).                                                    *)
(***************************************************************************)

\* sha1::Sha1::digest
Sha1Digest(bytes) == <<"sha1", bytes>>

\* From<BencodeError> for TorrentError
BencodeErr(r) == Err(<<"Bencode">> \o r.err)

MissingField(field) == Err(<<"MissingField", field>>)
IntegerOutOfBound(field) == Err(<<"IntegerOutOfBound", field>>)

KeyName == Str(<<"n","a","m","e">>)
KeyPieceLength == Str(<<"p","i","e","c","e"," ","l","e","n","g","t","h">>)
KeyPieces == Str(<<"p","i","e","c","e","s">>)
KeyLength == Str(<<"l","e","n","g","t","h">>)
KeyFiles == Str(<<"f","i","l","e","s">>)
KeyPath == Str(<<"p","a","t","h">>)

\* PathBuf::push on a Unix path: an absolute component replaces the path, any
\* other is appended after a separator.
PathPush(path, component) ==
    IF component # <<>> /\ component[1] = 47 THEN component
    ELSE IF path = <<>> THEN component
    ELSE IF path[Len(path)] = 47 THEN path \o component
    ELSE path \o <<47>> \o component

\* path.into_iter().map(String::try_from).collect::<Result<PathBuf, _>>(): the
\* components pushed in order, or the first conversion error.
RECURSIVE CollectPath(_, _)
CollectPath(list, path) ==
    IF list = <<>> THEN Ok(path)
    ELSE LET seg == String_try_from(Head(list))
         IN  IF ~seg.ok THEN BencodeErr(seg)
             ELSE CollectPath(Tail(list), PathPush(path, seg.val))

\* chunks_exact(20) of a string whose length is a multiple of 20.
Chunks20(bytes) == [j \in 1..(Len(bytes) \div 20) |-> SubSeq(bytes, 20 * (j - 1) + 1, 20 * j)]

File_from_bencode(dict) ==
    IF ~BTreeHas(dict, KeyLength) THEN MissingField("length")
    ELSE LET len == BencodeInt_try_from(BTreeGet(dict, KeyLength))
         IN  IF ~len.ok THEN BencodeErr(len)
             ELSE IF len.val < 0 THEN IntegerOutOfBound("length")
             ELSE IF ~BTreeHas(dict, KeyPath) THEN MissingField("path")
             ELSE LET list == BencodeList_try_from(BTreeGet(dict, KeyPath))
                  IN  IF ~list.ok THEN BencodeErr(list)
                      ELSE LET path == CollectPath(list.val, <<>>)
                           IN  IF ~path.ok THEN path
                               ELSE Ok([length |-> len.val, path |-> path.val])

\* for file in files_list { files.push(File::from_bencode(file.try_into()?)?) }
RECURSIVE CollectFiles(_, _)
CollectFiles(files_list, files) ==
    IF files_list = <<>> THEN Ok(files)
    ELSE LET dict == BencodeDict_try_from(Head(files_list))
         IN  IF ~dict.ok THEN BencodeErr(dict)
             ELSE LET file == File_from_bencode(dict.val)
                  IN  IF ~file.ok THEN file
                      ELSE CollectFiles(Tail(files_list), Append(files, file.val))

\* The second half of Info::from_bencode with the single-file mode keeping the
\* torrent name as the top-level name.
InfoFiles_name_kept(dict, name, info_hash, piece_length, pieces) ==
    IF BTreeHas(dict, KeyLength) /\ Tag(BTreeGet(dict, KeyLength)) = "Int"
    THEN LET length == Payload(BTreeGet(dict, KeyLength))
         IN  IF length < 0 THEN IntegerOutOfBound("length")
             ELSE Ok([files |-> <<[length |-> length, path |-> name]>>,
                      name |-> name,
                      info_hash |-> info_hash,
                      piece_length |-> piece_length,
                      pieces |-> pieces])
    ELSE MissingField("files")

\* The second half of Info::from_bencode: the files of the single-file or the
\* multi-file mode, and the Info.
InfoFiles(dict, name, info_hash, piece_length, pieces) ==
    IF BTreeHas(dict, KeyLength) /\ Tag(BTreeGet(dict, KeyLength)) = "Int"
    THEN LET length == Payload(BTreeGet(dict, KeyLength))
         IN  IF length < 0 THEN IntegerOutOfBound("length")
             ELSE Ok([files |-> <<[length |-> length, path |-> name]>>,
                      name |-> <<>>,
                      info_hash |-> info_hash,
                      piece_length |-> piece_length,
                      pieces |-> pieces])
    ELSE IF ~BTreeHas(dict, KeyFiles) THEN MissingField("files")
    ELSE LET files_list == BencodeList_try_from(BTreeGet(dict, KeyFiles))
         IN  IF ~files_list.ok THEN BencodeErr(files_list)
             ELSE LET files == CollectFiles(files_list.val, <<>>)
                  IN  IF ~files.ok THEN files
                      ELSE Ok([files |-> files.val,
                               name |-> name,
                               info_hash |-> info_hash,
                               piece_length |-> piece_length,
                               pieces |-> pieces])

Info_from_bencode(dict) ==
    LET raw_info  == encode_dict(dict)
        info_hash == Sha1Digest(raw_info)
    IN  IF ~BTreeHas(dict, KeyName) THEN MissingField("name")
        ELSE LET name == String_try_from(BTreeGet(dict, KeyName))
             IN  IF ~name.ok THEN BencodeErr(name)
        ELSE IF ~BTreeHas(dict, KeyPieceLength) THEN MissingField("piece length")
        ELSE LET piece_length == BencodeInt_try_from(BTreeGet(dict, KeyPieceLength))
             IN  IF ~piece_length.ok THEN BencodeErr(piece_length)
        ELSE IF piece_length.val < 0 THEN IntegerOutOfBound("piece_length")
        ELSE IF ~BTreeHas(dict, KeyPieces) THEN MissingField("pieces")
        ELSE LET pieces == BencodeString_try_from(BTreeGet(dict, KeyPieces))
             IN  IF ~pieces.ok THEN BencodeErr(pieces)
        ELSE IF Len(pieces.val) % 20 # 0 THEN Err(<<"InvalidInfoHash">>)
        ELSE InfoFiles(BTreeRemove(BTreeRemove(BTreeRemove(dict, KeyName), KeyPieceLength),
                                   KeyPieces),
                       name.val, info_hash, piece_length.val, Chunks20(pieces.val))

\* The info dictionary read from a slice and bound: from_slice, the conversion to
\* a dictionary, Info::from_bencode.
LoadInfo(d, checks) ==
    LET value == from_slice(d, checks)
    IN  IF Panicked(value) THEN Err(<<"panic", value.err>>)
        ELSE IF ~value.ok THEN Err(<<"Bencode", value.err>>)
        ELSE LET dict == BencodeDict_try_from(value.val)
             IN  IF ~dict.ok THEN BencodeErr(dict)
                 ELSE Info_from_bencode(dict.val)

(***************************************************************************)
(* Handshake message (peer/connection.rs): extension_bytes [u8; 8],         *)
(* info_hash [u8; 20], peer_id [u8; 20]; on the wire a [u8; 68].           *)
(***************************************************************************)

BIT_TORRENT_PROTOCOL_STRING ==
    Str(<<"B","i","t","T","o","r","r","e","n","t"," ","p","r","o","t","o","c","o","l">>)

HandshakeMessage_new(extension_bytes, info_hash, peer_id) ==
    [extension_bytes |-> extension_bytes, info_hash |-> info_hash, peer_id |-> peer_id]

\* arr[from..to].copy_from_slice(src), the range 0-based and half-open.
CopyFromSlice(arr, from, to, src) ==
    [j \in 1..Len(arr) |-> IF j > from /\ j <= to THEN src[j - from] ELSE arr[j]]

\* A serialiser that writes the peer id before the info hash.
to_bytes_swapped(h) ==
    LET r0 == [j \in 1..68 |-> 0]
        r1 == [r0 EXCEPT ![1] = 19]
        r2 == CopyFromSlice(r1, 1, 20, BIT_TORRENT_PROTOCOL_STRING)
        r3 == CopyFromSlice(r2, 20, 28, h.extension_bytes)
        r4 == CopyFromSlice(r3, 28, 48, h.peer_id)
    IN  CopyFromSlice(r4, 48, 68, h.info_hash)

\* HandshakeMessage::to_bytes
to_bytes(h) ==
    LET r0 == [j \in 1..68 |-> 0]
        r1 == [r0 EXCEPT ![1] = 19]
        r2 == CopyFromSlice(r1, 1, 20, BIT_TORRENT_PROTOCOL_STRING)
        r3 == CopyFromSlice(r2, 20, 28, h.extension_bytes)
        r4 == CopyFromSlice(r3, 28, 48, h.info_hash)
    IN  CopyFromSlice(r4, 48, 68, h.peer_id)

\* A parser that leaves the extension bytes at zero.
from_bytes_extension_dropped(raw) ==
    IF raw[1] # 19 THEN Err(<<"ProtocolStringLen", raw[1]>>)
    ELSE IF Slice(raw, 1, 20) # BIT_TORRENT_PROTOCOL_STRING
    THEN Err(<<"ProtocolString", Slice(raw, 1, 20)>>)
    ELSE Ok(HandshakeMessage_new([j \in 1..8 |-> 0], Slice(raw, 28, 48), Slice(raw, 48, 68)))

\* A parser that checks the protocol string only.
from_bytes_no_length_check(raw) ==
    IF Slice(raw, 1, 20) # BIT_TORRENT_PROTOCOL_STRING
    THEN Err(<<"ProtocolString", Slice(raw, 1, 20)>>)
    ELSE Ok(HandshakeMessage_new(Slice(raw, 20, 28), Slice(raw, 28, 48), Slice(raw, 48, 68)))

\* HandshakeMessage::from_bytes of a [u8; 68]. ProtocolString carries the 19
\* bytes found (the source renders them with from_utf8_lossy).
from_bytes(raw) ==
    LET pstr_len == raw[1]
    IN  IF pstr_len # 19 THEN Err(<<"ProtocolStringLen", pstr_len>>)
        ELSE IF Slice(raw, 1, 20) # BIT_TORRENT_PROTOCOL_STRING
        THEN Err(<<"ProtocolString", Slice(raw, 1, 20)>>)
        ELSE Ok(HandshakeMessage_new(Slice(raw, 20, 28), Slice(raw, 28, 48),
                                     Slice(raw, 48, 68)))

\* The first 68 bytes PeerConnection::handshake writes:
\* HandshakeMessage::new([0; 8], *info_hash, peer_id.clone()).to_bytes()
OurHandshake(info_hash, peer_id) ==
    to_bytes(HandshakeMessage_new([j \in 1..8 |-> 0], info_hash, peer_id))

(***************************************************************************)
(* Framed messages (peer/connection.rs). A Message is the tuple of its     *)
(* variant's name and the variant's fields. host is the byte order of the  *)
(* machine the client runs on ("little" or "big"), which the _ne           *)
(* conversions follow.                                                     *)
(***************************************************************************)

\* u32::from_be_bytes and u32::from_le_bytes of four bytes; u16::from_be_bytes.
U32FromBe(b) == ((b[1] * 256 + b[2]) * 256 + b[3]) * 256 + b[4]
U32FromLe(b) == ((b[4] * 256 + b[3]) * 256 + b[2]) * 256 + b[1]
U16FromBe(b) == b[1] * 256 + b[2]

\* Buf::get_u32_ne on the four bytes at the head of the slice.
get_u32_ne(b, host) == IF host = "little" THEN U32FromLe(b) ELSE U32FromBe(b)

BlockRequest_new(index, begin, length) ==
    [index |-> index, begin |-> begin, length |-> length]

\* impl TryFrom<&[u8]> for BlockRequest
BlockRequest_try_from(value, host) ==
    IF Len(value) # 12 THEN Err(<<"PayloadLength", Len(value)>>)
    ELSE Ok(BlockRequest_new(get_u32_ne(Slice(value, 0, 4), host),
                             get_u32_ne(Slice(value, 4, 8), host),
                             get_u32_ne(Slice(value, 8, 12), host)))

\* impl TryFrom<&[u8]> for Piece
Piece_try_from(value, host) ==
    IF Len(value) < 8 THEN Err(<<"PayloadLength", Len(value)>>)
    ELSE Ok([index |-> get_u32_ne(Slice(value, 0, 4), host),
             begin |-> get_u32_ne(Slice(value, 4, 8), host),
             data  |-> SliceFrom(value, 8)])

\* A message parser that knows the ids 0..4 only.
Message_try_from_five_ids(payload, host) ==
    IF payload = <<>> THEN Err(<<"UnexpectedEOF">>)
    ELSE LET id    == payload[1]
             value == SliceFrom(payload, 1)
         IN  CASE id = 0 -> Ok(<<"Choke">>)
               [] id = 1 -> Ok(<<"UnChoke">>)
               [] id = 2 -> Ok(<<"Interested">>)
               [] id = 3 -> Ok(<<"NotInterested">>)
               [] id = 4 -> IF Len(value) < 4 THEN Err(<<"UnexpectedEOF">>)
                            ELSE Ok(<<"Have", U32FromBe(Slice(value, 0, 4))>>)
               [] OTHER  -> Err(<<"MessageId", id>>)

\* impl TryFrom<&[u8]> for Message: the payload of one frame.
Message_try_from(payload, host) ==
    IF payload = <<>> THEN Err(<<"UnexpectedEOF">>)
    ELSE LET id    == payload[1]
             value == SliceFrom(payload, 1)
         IN  CASE id = 0 -> Ok(<<"Choke">>)
               [] id = 1 -> Ok(<<"UnChoke">>)
               [] id = 2 -> Ok(<<"Interested">>)
               [] id = 3 -> Ok(<<"NotInterested">>)
               [] id = 4 -> IF Len(value) < 4 THEN Err(<<"UnexpectedEOF">>)
                            ELSE Ok(<<"Have", U32FromBe(Slice(value, 0, 4))>>)
               [] id = 5 -> Ok(<<"Bitfield", value>>)
               [] id = 6 -> LET r == BlockRequest_try_from(value, host)
                            IN  IF r.ok THEN Ok(<<"Request", r.val>>) ELSE r
               [] id = 7 -> LET r == Piece_try_from(value, host)
                            IN  IF r.ok THEN Ok(<<"Piece", r.val>>) ELSE r
               [] id = 8 -> LET r == BlockRequest_try_from(value, host)
                            IN  IF r.ok THEN Ok(<<"Cancel", r.val>>) ELSE r
               [] id = 9 -> IF Len(value) < 2 THEN Err(<<"UnexpectedEOF">>)
                            ELSE Ok(<<"Port", U16FromBe(Slice(value, 0, 2))>>)
               [] OTHER  -> Err(<<"MessageId", id>>)

\* u32::to_be_bytes, u32::to_le_bytes and u32::to_ne_bytes; u16::to_ne_bytes.
U32ToBe(n) == <<n \div 16777216, (n \div 65536) % 256, (n \div 256) % 256, n % 256>>
U32ToLe(n) == <<n % 256, (n \div 256) % 256, (n \div 65536) % 256, n \div 16777216>>
u32_to_ne_bytes(n, host) == IF host = "little" THEN U32ToLe(n) ELSE U32ToBe(n)
u16_to_ne_bytes(n, host) == IF host = "little" THEN <<n % 256, n \div 256>>
                                               ELSE <<n \div 256, n % 256>>

\* BlockRequest::to_bytes: the three fields with to_le_bytes.
BlockRequest_to_bytes(req) ==
    U32ToLe(req.index) \o U32ToLe(req.begin) \o U32ToLe(req.length)

\* Message::get_id (KeepAlive has none: the source panics).
Message_get_id(message) ==
    CASE message[1] = "Choke"         -> 0
      [] message[1] = "UnChoke"       -> 1
      [] message[1] = "Interested"    -> 2
      [] message[1] = "NotInterested" -> 3
      [] message[1] = "Have"          -> 4
      [] message[1] = "Bitfield"      -> 5
      [] message[1] = "Request"       -> 6
      [] message[1] = "Piece"         -> 7
      [] message[1] = "Cancel"        -> 8
      [] message[1] = "Port"          -> 9

\* Message::to_bytes reaches todo!() for these variants.
Message_to_bytes_panics(message) == message[1] \in {"Bitfield", "Piece"}

\* Message::to_bytes of a message it does not panic on: vec![0; 4], the id with
\* to_ne_bytes, the fields, and then the length over the first four bytes with
\* to_ne_bytes.
Message_to_bytes(message, host) ==
    IF message[1] = "KeepAlive" THEN <<0, 0, 0, 0>>
    ELSE LET fields ==
                 CASE message[1] = "Have" -> u32_to_ne_bytes(message[2], host)
                   [] message[1] \in {"Request", "Cancel"} -> BlockRequest_to_bytes(message[2])
                   [] message[1] = "Port" -> u16_to_ne_bytes(message[2], host)
                   [] OTHER -> <<>>
             result == <<0, 0, 0, 0>> \o <<Message_get_id(message)>> \o fields
         IN  CopyFromSlice(result, 0, 4, u32_to_ne_bytes(Len(result) - 4, host))

\* A recv that hands a zero-length frame to the message parser.
recv_no_keepalive(stream, host) ==
    IF Len(stream) < 4
    THEN [res |-> Err(<<"IoKind", "UnexpectedEof">>), used |-> Len(stream)]
    ELSE LET length_prefix == U32FromBe(Slice(stream, 0, 4))
         IN  IF Len(stream) < 4 + length_prefix
             THEN [res |-> Err(<<"IoKind", "UnexpectedEof">>), used |-> Len(stream)]
             ELSE [res  |-> Message_try_from(Slice(stream, 4, 4 + length_prefix), host),
                   used |-> 4 + length_prefix]

\* A recv that leaves the payload on the transport when it does not parse.
recv_payload_left(stream, host) ==
    IF Len(stream) < 4
    THEN [res |-> Err(<<"IoKind", "UnexpectedEof">>), used |-> Len(stream)]
    ELSE LET length_prefix == U32FromBe(Slice(stream, 0, 4))
         IN  IF length_prefix = 0 THEN [res |-> Ok(<<"KeepAlive">>), used |-> 4]
             ELSE IF Len(stream) < 4 + length_prefix
             THEN [res |-> Err(<<"IoKind", "UnexpectedEof">>), used |-> Len(stream)]
             ELSE LET message == Message_try_from(Slice(stream, 4, 4 + length_prefix), host)
                  IN  [res  |-> message,
                       used |-> IF message.ok THEN 4 + length_prefix ELSE 4]

\* PeerConnection::recv on a transport whose unread bytes are stream and which
\* is at its end after them: [res, used], the result and the count of bytes
\* taken off the transport. A read_exact that meets the end fails with an I/O
\* error and has taken what was left.
recv(stream, host) ==
    IF Len(stream) < 4
    THEN [res |-> Err(<<"IoKind", "UnexpectedEof">>), used |-> Len(stream)]
    ELSE LET length_prefix == U32FromBe(Slice(stream, 0, 4))
         IN  IF length_prefix = 0 THEN [res |-> Ok(<<"KeepAlive">>), used |-> 4]
             ELSE IF Len(stream) < 4 + length_prefix
             THEN [res |-> Err(<<"IoKind", "UnexpectedEof">>), used |-> Len(stream)]
             ELSE [res  |-> Message_try_from(Slice(stream, 4, 4 + length_prefix), host),
                   used |-> 4 + length_prefix]

(***************************************************************************)
(* Tracker client (tracker/mod.rs).  Errors are TrackerError variants:     *)
(* <<"Bencode", ..>>, <<"UnsupportedProtocol", scheme>>,                   *)
(* <<"AnnounceRequestError", ..>>, <<"TrackerResponse", ..>>,              *)
(* <<"ResponseFormat", ..>>.                                               *)
(***************************************************************************)

ResponseFormat(detail) == Err(<<"ResponseFormat", detail>>)

\* A failure reason reported as a malformed response.
TrackerResponse_as_format(how, detail) == Err(<<"ResponseFormat", how>>)

TrackerResponse(how, detail) == Err(<<"TrackerResponse", how, detail>>)

AnnounceRequestError(detail) == Err(<<"AnnounceRequestError", detail>>)

UnsupportedProtocol(scheme) == Err(<<"UnsupportedProtocol", scheme>>)

KeyInterval == Str(<<"i","n","t","e","r","v","a","l">>)
KeyPeers == Str(<<"p","e","e","r","s">>)
KeyPeerId == Str(<<"p","e","e","r"," ","i","d">>)
KeyIp == Str(<<"i","p">>)
KeyPort == Str(<<"p","o","r","t">>)
KeyFailureReason == Str(<<"f","a","i","l","u","r","e"," ","r","e","a","s","o","n">>)

\* The conversions of a Value to u64 and to u16 that from_bencode calls with
\* try_into()?: their impls are not among the sources.  The ? turns their error
\* into a TrackerError, and Bencode is the only variant with a From impl, so the
\* error is a BencodeError: InvalidType for a value that is no integer (as in the
\* conversion to i64), and an error for an integer outside the target's range.
u64_try_from(value) ==
    LET int == BencodeInt_try_from(value)
    IN  IF ~int.ok THEN int
        ELSE IF int.val < 0 THEN Err(<<"InvalidFormat", "out of range">>)
        ELSE int

u16_try_from(value) ==
    LET int == BencodeInt_try_from(value)
    IN  IF ~int.ok THEN int
        ELSE IF int.val < 0 \/ int.val > 65535 THEN Err(<<"InvalidFormat", "out of range">>)
        ELSE int

\* Buf::get_u32 and Buf::get_u16 (big-endian) on the bytes at the head of the slice.
\* A port read least significant byte first.
get_u16_le(b) == b[2] * 256 + b[1]

get_u16(b) == b[1] * 256 + b[2]

get_u32(b) == ((b[1] * 256 + b[2]) * 256 + b[3]) * 256 + b[4]

\* Ipv4Addr::from_bits: the four octets, most significant first.
Ipv4Addr_from_bits(ip) ==
    <<ip \div 16777216, (ip \div 65536) % 256, (ip \div 256) % 256, ip % 256>>

SocketAddrV4_new(octets, port) == <<"V4", octets, port>>

SocketAddr_new(ip, port) == <<ip[1], ip[2], port>>

Peer_new(peer_id, addr) == [peer_id |-> peer_id, addr |-> addr]

\* The parts of a text between the dots.
RECURSIVE SplitDots(_)
SplitDots(text) ==
    IF \A j \in 1..Len(text) : text[j] # 46 THEN <<text>>
    ELSE LET j == CHOOSE j \in 1..Len(text) :
                      text[j] = 46 /\ \A q \in 1..(j - 1) : text[q] # 46
         IN  <<SubSeq(text, 1, j - 1)>> \o SplitDots(SubSeq(text, j + 1, Len(text)))

\* A decimal octet as Ipv4Addr::from_str reads it: one to three digits, no
\* leading zero before another digit, at most 255; -1 for anything else.
Octet(part) ==
    IF Len(part) \in 1..3 /\ (\A j \in 1..Len(part) : IsDigit(part[j]))
       /\ (Len(part) = 1 \/ part[1] # 48)
    THEN LET n == IF Len(part) = 1 THEN part[1] - 48
                  ELSE IF Len(part) = 2 THEN (part[1] - 48) * 10 + part[2] - 48
                  ELSE (part[1] - 48) * 100 + (part[2] - 48) * 10 + part[3] - 48
         IN  IF n <= 255 THEN n ELSE -1
    ELSE -1

\* The value of a hexadecimal digit, -1 for any other byte.
HexVal(b) ==
    IF b \in 48..57 THEN b - 48
    ELSE IF b \in 97..102 THEN b - 87
    ELSE IF b \in 65..70 THEN b - 55
    ELSE -1

RECURSIVE HexValue(_)
HexValue(ds) ==
    IF ds = <<>> THEN 0
    ELSE HexValue(SubSeq(ds, 1, Len(ds) - 1)) * 16 + HexVal(ds[Len(ds)])

\* The parts of a text between the colons.
Colons(text) == { j \in 1..Len(text) : text[j] = 58 }

NthColon(text, n) ==
    IF n = 0 THEN 0
    ELSE IF n > Cardinality(Colons(text)) THEN Len(text) + 1
    ELSE CHOOSE j \in Colons(text) : Cardinality({ q \in Colons(text) : q < j }) = n - 1

SplitColons(text) ==
    [k \in 1..(Cardinality(Colons(text)) + 1) |->
        SubSeq(text, NthColon(text, k - 1) + 1, NthColon(text, k) - 1)]

\* One group of an IPv6 literal: one to four hexadecimal digits, leading zeros
\* allowed.
IsGroup(part) == Len(part) \in 1..4 /\ \A j \in 1..Len(part) : HexVal(part[j]) >= 0

\* A dotted quad, as the two groups it stands for at the end of an IPv6 literal.
IsQuad(part) ==
    /\ Len(SplitDots(part)) = 4
    /\ \A j \in 1..4 : Octet(SplitDots(part)[j]) >= 0

QuadGroups(part) ==
    << Octet(SplitDots(part)[1]) * 256 + Octet(SplitDots(part)[2]),
       Octet(SplitDots(part)[3]) * 256 + Octet(SplitDots(part)[4]) >>

\* The groups that the parts of a run of an IPv6 literal stand for: every part
\* is a group, but the last may be an embedded IPv4 address where one is
\* allowed.
read_groups(parts, ipv4_allowed) ==
    LET n == Len(parts)
    IN  IF \A j \in 1..n : IsGroup(parts[j])
        THEN Ok([j \in 1..n |-> HexValue(parts[j])])
        ELSE IF ipv4_allowed /\ n >= 1 /\ IsQuad(parts[n])
                /\ \A j \in 1..(n - 1) : IsGroup(parts[j])
        THEN Ok([j \in 1..(n - 1) |-> HexValue(parts[j])] \o QuadGroups(parts[n]))
        ELSE Err(<<"AddrParseError">>)

\* An IPv6 literal: eight groups, or at most seven around the first "::", which
\* stands for the groups of zeros that are missing; an embedded IPv4 address may
\* only end the literal.
read_ipv6_addr(text) ==
    LET doubles == { j \in 1..(Len(text) - 1) : text[j] = 58 /\ text[j + 1] = 58 }
    IN  IF doubles = {}
        THEN LET all == read_groups(SplitColons(text), TRUE)
             IN  IF all.ok /\ Len(all.val) = 8 THEN all ELSE Err(<<"AddrParseError">>)
        ELSE LET c    == CHOOSE j \in doubles : \A q \in doubles : j <= q
                 head == read_groups(IF c = 1 THEN <<>>
                                     ELSE SplitColons(SubSeq(text, 1, c - 1)), FALSE)
                 tail == read_groups(IF c + 1 = Len(text) THEN <<>>
                                     ELSE SplitColons(SubSeq(text, c + 2, Len(text))), TRUE)
             IN  IF head.ok /\ tail.ok /\ Len(head.val) + Len(tail.val) <= 7
                 THEN Ok(head.val
                         \o [j \in 1..(8 - Len(head.val) - Len(tail.val)) |-> 0]
                         \o tail.val)
                 ELSE Err(<<"AddrParseError">>)

\* str::parse::<IpAddr>: a dotted quad is V4, an IPv6 literal is V6.
IpAddr_parse(text) ==
    LET parts == SplitDots(text)
    IN  IF Len(parts) = 4 /\ \A j \in 1..4 : Octet(parts[j]) >= 0
        THEN Ok(<<"V4", [j \in 1..4 |-> Octet(parts[j])]>>)
        ELSE LET v6 == read_ipv6_addr(text)
             IN  IF v6.ok THEN Ok(<<"V6", v6.val>>) ELSE Err(<<"AddrParseError">>)

\* The compact form: peers_count records of a u32 address and a u16 port.
compact_peers(string) ==
    [j \in 1..(Len(string) \div 6) |->
        LET ip   == get_u32(Slice(string, 6 * (j - 1), 6 * (j - 1) + 4))
            port == get_u16(Slice(string, 6 * (j - 1) + 4, 6 * j))
        IN  Peer_new(<<"None">>, SocketAddrV4_new(Ipv4Addr_from_bits(ip), port))]

\* One entry of the verbose form.
verbose_peer(value) ==
    IF Tag(value) # "Dict" THEN ResponseFormat("peers list of dicts format error")
    ELSE LET dict == Payload(value)
             peer_id ==
                 IF BTreeHas(dict, KeyPeerId)
                    /\ Tag(BTreeGet(dict, KeyPeerId)) = "String"
                    /\ Len(Payload(BTreeGet(dict, KeyPeerId))) = 20
                 THEN <<"Some", Payload(BTreeGet(dict, KeyPeerId))>>
                 ELSE <<"None">>
         IN  IF ~BTreeHas(dict, KeyIp)
             THEN ResponseFormat("No 'ip' field found in dictionary form")
             ELSE LET text == String_try_from(BTreeGet(dict, KeyIp))
                  IN  IF ~text.ok THEN BencodeErr(text)
             ELSE LET ip == IpAddr_parse(text.val)
                  IN  IF ~ip.ok THEN ResponseFormat("is not valid ip address")
             ELSE IF ~BTreeHas(dict, KeyPort)
             THEN ResponseFormat("No 'port' filed found in dictionary form")
             ELSE LET port == u16_try_from(BTreeGet(dict, KeyPort))
                  IN  IF ~port.ok THEN BencodeErr(port)
                      ELSE Ok(Peer_new(peer_id, SocketAddr_new(ip.val, port.val)))

\* for value in list: the peers of the entries, or the error of the first entry
\* that has one.
RECURSIVE verbose_peers(_, _)
verbose_peers(list, peers_result) ==
    IF list = <<>> THEN Ok(peers_result)
    ELSE LET peer == verbose_peer(list[1])
         IN  IF ~peer.ok THEN peer
             ELSE verbose_peers(SubSeq(list, 2, Len(list)), Append(peers_result, peer.val))

\* AnnounceResponse::from_bencode
AnnounceResponse_from_bencode(bencode_dict) ==
    IF ~BTreeHas(bencode_dict, KeyInterval) THEN ResponseFormat("No 'interval' field")
    ELSE LET interval == u64_try_from(BTreeGet(bencode_dict, KeyInterval))
         IN  IF ~interval.ok THEN BencodeErr(interval)
    ELSE IF ~BTreeHas(bencode_dict, KeyPeers) THEN ResponseFormat("No 'peers' field")
    ELSE LET peers == BTreeGet(bencode_dict, KeyPeers)
             peers_result ==
                 CASE Tag(peers) = "String" ->
                        IF Len(Payload(peers)) % 6 # 0
                        THEN ResponseFormat("peers binary string length is not a multiple of 6")
                        ELSE Ok(compact_peers(Payload(peers)))
                   [] Tag(peers) = "List" -> verbose_peers(Payload(peers), <<>>)
                   [] OTHER -> Ok(<<>>)
         IN  IF ~peers_result.ok THEN peers_result
             ELSE Ok([interval |-> interval.val, min_interval |-> <<"None">>,
                      complete |-> <<"None">>, incomplete |-> <<"None">>,
                      peers |-> peers_result.val])

\* The scheme test of announce: !(scheme != "http" || scheme != "https").
scheme_rejected(scheme) == ~(scheme # "http" \/ scheme # "https")

\* announce from the response body on: from_slice, the conversion to a
\* dictionary, the failure reason, AnnounceResponse::from_bencode.
announce_response(body, checks) ==
    LET value == from_slice(body, checks)
    IN  IF Panicked(value) THEN Err(<<"panic", value.err>>)
        ELSE IF ~value.ok THEN Err(<<"Bencode", value.err>>)
        ELSE LET bencode == BencodeDict_try_from(value.val)
             IN  IF ~bencode.ok THEN BencodeErr(bencode)
        ELSE IF BTreeHas(bencode.val, KeyFailureReason)
        THEN LET failure_reason == BTreeGet(bencode.val, KeyFailureReason)
             IN  IF Tag(failure_reason) = "String"
                 THEN IF Utf8Valid(Payload(failure_reason))
                      THEN TrackerResponse("reason", Payload(failure_reason))
                      ELSE TrackerResponse("tracker response error, unknown string format", <<>>)
                 ELSE TrackerResponse("expected string got", <<ValueName(failure_reason)>>)
        ELSE AnnounceResponse_from_bencode(BTreeRemove(bencode.val, KeyFailureReason))

(***************************************************************************)
(* Session (client/mod.rs): Config, Client::new, Client::download.         *)
(***************************************************************************)

\* Config::new: the count, or a panic on zero.
Config_new(connection_numbers_) ==
    IF connection_numbers_ = 0 THEN Err(<<"panic", "connection numbers cannot be zero">>)
    ELSE Ok([connection_numbers |-> connection_numbers_])

\* #[derive(Default)] on Config: usize::default()
Config_default == Ok([connection_numbers |-> 0])

\* From<TrackerError> for ClientError
PeersRetrieve(r) == Err(<<"PeersRetrieve">> \o r.err)

\* Client::download after the announce: `?` on its result, then Ok(()); the
\* call of Leeching::new is commented out. A panic of the announce is the end
\* of download too.
download(announced) ==
    IF ~announced.ok /\ announced.err[1] = "panic"
    THEN [result |-> announced, leeched |-> <<>>]
    ELSE IF ~announced.ok THEN [result |-> PeersRetrieve(announced), leeched |-> <<>>]
    ELSE [result |-> Ok(<<>>), leeched |-> <<>>]

(***************************************************************************)
(* Worker pool (client/mod.rs Leeching::new, client/worker.rs Peering).    *)
(***************************************************************************)

\* for _ in 0..20
WorkerCount == 20

\* Peering::new, in a thread that has not run yet: about to lock the queue.
Peering_new == [pc |-> "lock", peer |-> 0, choked |-> TRUE]

\* A queue that hands out its head without removing it.
Receiver_recv_kept(queue, sender_alive) ==
    IF queue # <<>> THEN [ready |-> TRUE, res |-> Ok(Head(queue)), queue |-> queue]
    ELSE IF sender_alive THEN [ready |-> FALSE, res |-> Err(<<"none">>), queue |-> queue]
    ELSE [ready |-> TRUE, res |-> Err(<<"RecvError">>), queue |-> queue]

\* mpsc::Receiver::recv: the oldest message, removed from the queue; blocks
\* (not ready) on an empty queue while the sender lives; Err once the sender is
\* dropped and the queue is empty.
Receiver_recv(queue, sender_alive) ==
    IF queue # <<>> THEN [ready |-> TRUE, res |-> Ok(Head(queue)), queue |-> Tail(queue)]
    ELSE IF sender_alive THEN [ready |-> FALSE, res |-> Err(<<"none">>), queue |-> queue]
    ELSE [ready |-> TRUE, res |-> Err(<<"RecvError">>), queue |-> queue]

(***************************************************************************)
(* BitField (util/mod.rs): one byte and the iterator over its bits.        *)
(***************************************************************************)

\* self.value & (1 << position) != 0, for position < 8
get_bit(value, position_) == (value \div 2^position_) % 2 = 1

\* self.value |= 1 << position  or  self.value &= !(1 << position)
set_bit(value, position_, bit_value) ==
    IF bit_value
    THEN IF get_bit(value, position_) THEN value ELSE value + 2^position_
    ELSE IF get_bit(value, position_) THEN value - 2^position_ ELSE value

(***************************************************************************)
(* Input slices of the codec: every encoding of at most MaxLen bytes that  *)
(* the bencode grammar builds from the atoms below (integers with and      *)
(* without redundant zeros, strings with and without a leading zero in the *)
(* length, lists, dictionaries with keys in any order and repeated keys),  *)
(* and a few longer or malformed slices.                                   *)
(***************************************************************************)

MaxLen == 13

IntTexts ==
    { Str(<<"0">>), Str(<<"7">>), Str(<<"-","3">>), Str(<<"0","0","7">>), Str(<<"-","0">>) }

StrAtoms ==
    { Str(<<"0",":">>), Str(<<"1",":","a">>), Str(<<"1",":","b">>), Str(<<"0","1",":","a">>) }

KeyAtoms == { Str(<<"0",":">>), Str(<<"1",":","a">>), Str(<<"1",":","b">>) }

Atoms == { <<Ord("i")>> \o t \o <<Ord("e")>> : t \in IntTexts } \cup StrAtoms

RECURSIVE ValsOfLen(_), ItemsOfLen(_), PairsOfLen(_)

\* The encodings of exactly n bytes.
ValsOfLen(n) ==
    { a \in Atoms : Len(a) = n }
    \cup (IF n < 2 THEN {}
          ELSE { <<Ord("l")>> \o x \o <<Ord("e")>> : x \in ItemsOfLen(n - 2) }
               \cup { <<Ord("d")>> \o x \o <<Ord("e")>> : x \in PairsOfLen(n - 2) })

\* The concatenations of encodings that take exactly n bytes.
ItemsOfLen(n) ==
    IF n = 0 THEN {<<>>}
    ELSE UNION { { v \o x : v \in ValsOfLen(j), x \in ItemsOfLen(n - j) } : j \in 1..n }

\* The concatenations of key/value pairs that take exactly n bytes.
PairsOfLen(n) ==
    IF n = 0 THEN {<<>>}
    ELSE UNION { UNION { { k \o v \o x : v \in ValsOfLen(j), x \in PairsOfLen(n - Len(k) - j) }
                         : j \in 1..(n - Len(k)) }
                 : k \in KeyAtoms }

\* Slices beyond the grammar or longer than MaxLen: the literal cases of the
\* tests (lib.rs 332-430), malformed integers, integers at the edge of i64,
\* a value followed by more bytes, and unsorted keys one level down.
ExtraInputs ==
    { Str(<<"5",":","a","b","f","d">>),
      Str(<<"i","4","5","2">>),
      Str(<<"i","4","f","5","2","e">>),
      Str(<<"l","1",":","a","i","4","2","e">>),
      Str(<<"l","1",":","a","u","i","4","2","e","e">>),
      Str(<<"d","1",":","a","1",":","b","1",":","b","i","4","2","e">>),
      Str(<<"d","1",":","a","1",":","b","1",":","b","i","4","2","e","e">>),
      Str(<<"d","i","7","e","0",":","e">>),
      Str(<<"i","e">>), Str(<<"i","-","e">>), Str(<<"i","-","-","1","e">>),
      Str(<<"i","1","-","e">>), Str(<<"i","+","1","e">>), Str(<<"i","-","0","0","7","e">>),
      Str(<<"i","4","2","e">>), Str(<<"i","-","3","5","4","e">>), Str(<<"i","1","0","0","e">>),
      <<Ord("i")>> \o I64MinDigits \o <<Ord("e")>>,
      <<Ord("i"), Ord("-")>> \o I64MaxDigits \o <<Ord("1"), Ord("e")>>,
      Str(<<"i","7","e","i","3","e">>),
      Str(<<"1",":","a","x">>),
      Str(<<"0">>), Str(<<"1",":">>), Str(<<":">>), Str(<<"x">>), <<>>,
      UsizeMaxDigits \o <<Ord(":")>>,
      SubSeq(UsizeMaxDigits, 1, 19) \o <<Ord("6"), Ord(":")>>,
      [j \in 1..20 |-> Ord("9")] \o <<Ord(":"), Ord("a")>>,
      Str(<<"4","2","9","4","9","6","7","2","9","6",":","a">>),
      Str(<<"d","i","7","e">>) \o UsizeMaxDigits \o <<Ord(":"), Ord("e")>>,
      Str(<<"d","l","x">>) \o UsizeMaxDigits \o <<Ord(":")>>,
      Str(<<"l","1",":","a">>) \o UsizeMaxDigits \o <<Ord(":"), Ord("e")>>,
      Str(<<"l","d","1",":","b","0",":","1",":","a","0",":","e","e">>),
      Str(<<"d","1",":","b","d","1",":","b","0",":","0",":","l","e","e","1",":","a","i","-","0","e","e">>) }

Inputs == (UNION { ValsOfLen(n) : n \in 0..MaxLen }) \cup ExtraInputs

MaxCut == 11

\* The proper prefixes of the encodings of at most MaxCut bytes.
Truncations ==
    UNION { { SubSeq(v, 1, k) : k \in 0..(Len(v) - 1) } :
              v \in UNION { ValsOfLen(n) : n \in 0..MaxCut } }

(***************************************************************************)
(* Input slices of the binder: info dictionaries made of one encoding per  *)
(* field (or none), the fields in every order.                             *)
(***************************************************************************)

\* The encoding of a key and a value's encoding after it.
Entry(key, valueBytes) == encode_bytes(key) \o valueBytes

Piece20(b) == [j \in 1..20 |-> b]

NameOpts == { <<>>, Entry(KeyName, Str(<<"1",":","x">>)) }

PieceLengthOpts ==
    { Entry(KeyPieceLength, Str(<<"i","4","e">>)),
      Entry(KeyPieceLength, Str(<<"i","-","1","e">>)) }

PiecesOpts ==
    { Entry(KeyPieces, encode_bytes(<<>>)),
      Entry(KeyPieces, encode_bytes(Piece20(1))),
      Entry(KeyPieces, encode_bytes(Piece20(1) \o Piece20(2))),
      Entry(KeyPieces, encode_bytes(<<1, 2, 3>>)) }

LengthOpts == { <<>>, Entry(KeyLength, Str(<<"i","9","e">>)) }

FilesOpts ==
    { <<>>,
      Entry(KeyFiles,
            Str(<<"l","d">>) \o Entry(KeyLength, Str(<<"i","3","e">>))
            \o Entry(KeyPath, Str(<<"l","1",":","a","1",":","b","e">>))
            \o Str(<<"e","e">>)),
      Entry(KeyFiles,
            Str(<<"l","d">>) \o Entry(KeyLength, Str(<<"i","3","e">>))
            \o Entry(KeyPath, Str(<<"l","1",":","a","1",":","b","e">>))
            \o Str(<<"e","d">>) \o Entry(KeyLength, Str(<<"i","5","e">>))
            \o Entry(KeyPath, Str(<<"l","1",":","c","e">>))
            \o Str(<<"e","e">>)) }

\* The field encodings of one info dictionary, in ascending key order
\* (files, length, name, piece length, pieces), absent fields left out.
EntryLists ==
    { SelectSeq(<<f, l, n, pl, ps>>, LAMBDA e : e # <<>>) :
        f \in FilesOpts, l \in LengthOpts, n \in NameOpts,
        pl \in PieceLengthOpts, ps \in PiecesOpts }

Orders(n) == { p \in [1..n -> 1..n] : \A a, b \in 1..n : p[a] = p[b] => a = b }

\* The dictionary encoding with the entries in the order p.
DictOf(entries, p) ==
    <<Ord("d")>> \o Concat([j \in 1..Len(entries) |-> entries[p[j]]]) \o <<Ord("e")>>

(***************************************************************************)
(* Inputs of the handshake codec and of the peer connection                *)
(***************************************************************************)

Sha1s ==
    { [j \in 1..20 |-> j],
      [j \in 1..20 |-> IF j = 20 THEN 99 ELSE j],
      [j \in 1..20 |-> 255 - j] }

PeerIds ==
    { [j \in 1..20 |-> 100 + j],
      [j \in 1..20 |-> IF j = 1 THEN 45 ELSE 100 + j],
      [j \in 1..20 |-> j] }

ExtensionBytes ==
    { [j \in 1..8 |-> 0],
      [j \in 1..8 |-> IF j = 6 THEN 16 ELSE 0],
      [j \in 1..8 |-> 255] }

HandshakeMessages ==
    { HandshakeMessage_new(e, f, q) : e \in ExtensionBytes, f \in Sha1s, q \in PeerIds }

\* First bytes and protocol strings a remote may send: the right ones, and ones
\* that differ in the first or the last place, or everywhere.
PstrLens == { 19, 18, 20, 0, 255 }

Pstrs ==
    { BIT_TORRENT_PROTOCOL_STRING,
      [BIT_TORRENT_PROTOCOL_STRING EXCEPT ![1] = 98],
      [BIT_TORRENT_PROTOCOL_STRING EXCEPT ![19] = 76],
      [j \in 1..19 |-> 0] }

RawHandshakes ==
    { <<n>> \o ps \o e \o f \o q :
        n \in PstrLens, ps \in Pstrs, e \in ExtensionBytes, f \in Sha1s, q \in PeerIds }

\* Replies of a peer to the worker's handshake: whole ones, and ones cut short.
Replies ==
    { <<n>> \o ps \o e \o f \o q :
        n \in {19, 18}, ps \in {x \in Pstrs : x[2] # 0},
        e \in {x \in ExtensionBytes : x[1] = 0},
        f \in {x \in Sha1s : x[1] = 1}, q \in {x \in PeerIds : x[2] = 102} }

ShortReplies ==
    { SubSeq(<<19>> \o BIT_TORRENT_PROTOCOL_STRING \o [j \in 1..48 |-> j], 1, n) :
        n \in {0, 1, 20, 67} }

\* What a peer sends after its reply: frames, whole or cut short.
FrameStreams ==
    { <<>>,
      <<0, 0, 0, 0>>,
      <<0, 0, 0, 1, 1>>,
      <<0, 0, 0, 1, 0,  0, 0, 0, 5, 4, 0, 0, 1, 2,  0, 0, 0, 1, 1>>,
      <<0, 0, 0, 1, 77,  0, 0, 0, 1, 1>>,
      <<0, 0, 0, 13, 6, 0, 0, 0, 1, 0, 0, 2, 0, 0, 0, 64, 0,  0, 0, 0, 3, 9, 26, 225>>,
      <<0, 0, 0, 2, 6, 1,  0, 0, 0, 0>>,
      <<0, 0, 0, 9, 7, 0, 0>>,
      <<0, 0>> }

PeerStreams == { r \o fs : r \in Replies, fs \in FrameStreams } \cup ShortReplies

\* How many bytes of the handshake a failing write_all may have written.
WritePrefixes == { 0, 20, 67 }

\* recv calls of the worker that are followed (its loop has no end).
MaxRecv == 4

(***************************************************************************)
(* Inputs of the message codec                                             *)
(***************************************************************************)

FieldValues == { 0, 1, 16384, 66051 }

Messages ==
    { <<"KeepAlive">>, <<"Choke">>, <<"UnChoke">>, <<"Interested">>, <<"NotInterested">>,
      <<"Bitfield", <<255, 1>>>>,
      <<"Piece", [index |-> 1, begin |-> 0, data |-> <<7>>]>>,
      <<"Port", 0>>, <<"Port", 257>>, <<"Port", 6881>> }
    \cup { <<"Have", i>> : i \in FieldValues }
    \cup { <<"Request", BlockRequest_new(i, 0, 16384)>> : i \in FieldValues }
    \cup { <<"Cancel", BlockRequest_new(1, b, 66051)>> : b \in FieldValues }

\* The longest body (the bytes after the id) of a frame a remote sends.
MaxBody == 13

\* Ids a remote may send: the ten known ones and some others.
RemoteIds == 0..11 \cup { 20, 255 }

RemoteBodies ==
    { [j \in 1..n |-> 0] : n \in 0..MaxBody }
    \cup { [j \in 1..n |-> j] : n \in 1..MaxBody }

\* What a remote sends: one frame with a big-endian length prefix and then
\* nothing or another frame; frames cut short; keep-alives.
RemoteFrames ==
    { <<0, 0, 0, 1 + Len(body)>> \o <<id>> \o body : id \in RemoteIds, body \in RemoteBodies }

RemoteStreams ==
    RemoteFrames
    \cup { fr \o <<0, 0, 0, 1, 1>> : fr \in { x \in RemoteFrames : Len(x) <= 6 } }
    \cup FrameStreams
    \cup { <<0, 0, 0>>, <<0, 0, 0, 0, 9>>, <<0, 0, 0, 0, 0, 0, 0, 0>>, <<0, 0, 1, 0, 4>>,
           <<0, 0, 0, 5, 4, 0, 0>> }

(***************************************************************************)
(* Inputs of the tracker client                                            *)
(***************************************************************************)

Schemes == { "http", "https", "udp", "ftp" }

IpText == Str(<<"1","0",".","0",".","0",".","1">>)

\* Entries of a verbose peer dictionary.
IpOpts ==
    { <<>>,
      Entry(KeyIp, encode_bytes(IpText)),
      Entry(KeyIp, encode_bytes(Str(<<":",":","1">>))),
      Entry(KeyIp, encode_bytes(Str(<<"1",":",":","2">>))),
      Entry(KeyIp, encode_bytes(Str(<<"1",".","2",".","3">>))),
      Entry(KeyIp, encode_bytes(Str(<<"1",".","2",".","3",".","0","4">>))),
      Entry(KeyIp, Str(<<"i","7","e">>)) }

PortOpts ==
    { <<>>,
      Entry(KeyPort, Str(<<"i","6","8","8","1","e">>)),
      Entry(KeyPort, Str(<<"i","7","0","0","0","0","e">>)),
      Entry(KeyPort, Str(<<"i","-","1","e">>)),
      Entry(KeyPort, Str(<<"2",":","8","0">>)) }

PeerIdOpts ==
    { <<>>,
      Entry(KeyPeerId, encode_bytes([j \in 1..20 |-> 64 + j])),
      Entry(KeyPeerId, encode_bytes(<<1, 2, 3>>)),
      Entry(KeyPeerId, Str(<<"i","5","e">>)) }

\* The dictionary with these entries, which are in ascending key order.
DictBytes(entries) == <<Ord("d")>> \o Concat(entries) \o <<Ord("e")>>

VerbosePeers ==
    { DictBytes(<<i, q, pt>>) : i \in IpOpts, q \in PeerIdOpts, pt \in PortOpts }

GoodVerbosePeer ==
    DictBytes(<<Entry(KeyIp, encode_bytes(IpText)), Entry(KeyPort, Str(<<"i","8","0","e">>))>>)

CompactPeers ==
    { <<>>,
      <<10, 0, 0, 1, 26, 225>>,
      <<10, 0, 0, 1, 26, 225, 127, 0, 0, 1, 0, 80>>,
      <<1, 2, 3, 4, 1, 2, 10, 0, 0, 1, 26, 225, 100, 200, 0, 255, 255, 255>>,
      <<10, 0, 0, 1, 26, 225, 127>>,
      <<10, 0, 0, 1, 26>> }

PeersOpts ==
    { <<>>, Entry(KeyPeers, Str(<<"i","5","e">>)), Entry(KeyPeers, Str(<<"d","e">>)),
      Entry(KeyPeers, Str(<<"l","i","1","e","e">>)) }
    \cup { Entry(KeyPeers, encode_bytes(c)) : c \in CompactPeers }
    \cup { Entry(KeyPeers, <<Ord("l")>> \o v \o <<Ord("e")>>) : v \in VerbosePeers }
    \cup { Entry(KeyPeers, <<Ord("l")>> \o GoodVerbosePeer \o v \o <<Ord("e")>>) :
             v \in { x \in VerbosePeers : Len(x) <= 24 } }

IntervalOpts ==
    { <<>>,
      Entry(KeyInterval, Str(<<"i","1","8","0","0","e">>)),
      Entry(KeyInterval, Str(<<"i","-","1","e">>)),
      Entry(KeyInterval, Str(<<"2",":","6","0">>)) }

FailureReasonOpts ==
    { <<>>,
      Entry(KeyFailureReason, Str(<<"2",":","n","o">>)),
      Entry(KeyFailureReason, <<Ord("1"), Ord(":"), 255>>),
      Entry(KeyFailureReason, Str(<<"l","e">>)) }

\* Response bodies: dictionaries of the entries above, and bodies that are no
\* dictionary or no bencode.
ResponseBodies ==
    { DictBytes(<<f, i, ps>>) : f \in FailureReasonOpts, i \in IntervalOpts, ps \in PeersOpts }
    \cup { <<>>, Str(<<"l","e">>), Str(<<"i","1","e">>), Str(<<"x">>), Str(<<"d","1",":","a">>) }

\* What the HTTP round trip gives: send fails, reading the body fails, a body.
HttpOutcomes ==
    { <<"send_err">>, <<"bytes_err">> } \cup { <<"body", b>> : b \in ResponseBodies }

(***************************************************************************)
(* Inputs of the session                                                   *)
(***************************************************************************)

MaxConnections == 3

\* What the tracker client's announce returns: the request fails, the body of
\* the response cannot be retrieved, or the response body is handled.
AnnounceResults ==
    [checks \in BOOLEAN |->
        { AnnounceRequestError("send request to tracker failed"),
          AnnounceRequestError("failed to retrieve response body") }
        \cup { announce_response(body, checks) : body \in ResponseBodies }]

\* What a recv of the inner loop gives, as far as the worker's match tells them
\* apart.
RecvOutcomes ==
    { Ok(<<"Choke">>), Ok(<<"UnChoke">>), Ok(<<"KeepAlive">>), Err(<<"IoKind", "UnexpectedEof">>) }

\* The peers given to Leeching::new (socket addresses).
PeerLists ==
    { <<>>,
      <<SocketAddrV4_new(Ipv4Addr_from_bits(167772161), 6881)>>,
      <<SocketAddrV4_new(Ipv4Addr_from_bits(167772161), 6881),
        SocketAddrV4_new(Ipv4Addr_from_bits(2130706433), 80)>> }

(***************************************************************************)
(* States                                                                  *)
(***************************************************************************)

\* No result yet: of the codec (whose errors are words), and of the binder, the
\* handshake parser and the handshake (whose errors are tuples).
None == [ok |-> FALSE, err |-> "none"]

NoResult == [ok |-> FALSE, err |-> <<"none">>]

\* recv has not been called.
NoRecv == [res |-> NoResult, used |-> 0]

\* The codec is not in use, and no decoder is called: the build's overflow
\* checks have nothing to act on.
BencodeIdle ==
    /\ data = <<>>
    /\ decoded = None
    /\ encoded = <<>>
    /\ redecoded = None
    /\ bpc = "idle"
    /\ overflow_checks = FALSE

\* The codec pipeline is not in use, but from_slice is called: in either build.
BencodeCalled ==
    /\ data = <<>>
    /\ decoded = None
    /\ encoded = <<>>
    /\ redecoded = None
    /\ bpc = "idle"
    /\ overflow_checks \in BOOLEAN

MetainfoIdle ==
    /\ mdata = <<>>
    /\ minfo = <<>>

HandshakeIdle ==
    /\ hmsg = <<>>
    /\ hwire = <<>>
    /\ hsrc = "idle"
    /\ hparsed = NoResult

PeerIdle ==
    /\ host_order = "little"
    /\ torrent_info_hash = <<>>
    /\ client_id = <<>>
    /\ peer_out = <<>>
    /\ rpos = 0
    /\ sent = <<>>
    /\ io = "none"
    /\ hs_bytes = <<>>
    /\ hresult = NoResult
    /\ wpc = "idle"
    /\ choked = TRUE
    /\ received = <<>>

FrameIdle ==
    /\ fhost = "little"
    /\ fmsg = <<>>
    /\ fwire = <<>>
    /\ fsrc = "idle"
    /\ fres = NoRecv
    /\ fsent = NoResult

TrackerIdle ==
    /\ turl = <<>>
    /\ thttp = <<>>
    /\ tsent = 0
    /\ tpc = "idle"
    /\ tres = NoResult

\* No worker pool.
PoolIdle ==
    /\ lpc = "idle"
    /\ peers_given = <<>>
    /\ free_peers = <<>>
    /\ spawned = 0
    /\ joined = 0
    /\ guard = 0
    /\ peering = <<>>
    /\ taken = <<>>

\* No session.
ClientIdle ==
    /\ connection_numbers = 0
    /\ cpc = "idle"
    /\ announces = 0
    /\ torrent_info = NoResult
    /\ leeched = <<>>
    /\ download_result = NoResult

\* No BitField in use (position 8 is past the last bit; no iterator exists).
BitFieldIdle ==
    /\ bf_value = 0
    /\ got = <<>>
    /\ bf_panicked = FALSE
    /\ bit_field = 0
    /\ position = 8
    /\ yielded = <<>>
    /\ exhausted = FALSE

(***************************************************************************)
(* The codec pipeline: decode the input, encode the value, decode again.   *)
(***************************************************************************)

BencodeInit ==
    /\ data \in Inputs
    /\ decoded = None
    /\ encoded = <<>>
    /\ redecoded = None
    /\ bpc = "start"
    /\ overflow_checks \in BOOLEAN
    /\ MetainfoIdle /\ HandshakeIdle /\ PeerIdle /\ FrameIdle /\ TrackerIdle /\ BitFieldIdle /\ ClientIdle /\ PoolIdle

\* let value = from_slice(data)
Decode ==
    /\ bpc = "start"
    /\ decoded' = from_slice(data, overflow_checks)
    /\ bpc' = IF Panicked(decoded') THEN "panic" ELSE "decoded"
    /\ UNCHANGED <<data, encoded, redecoded, overflow_checks, mvars, hvars, pvars, fvars, tvars, uvars, cvars, lvars>>

\* let bytes = into_vec(&value), for a value that was decoded
Encode ==
    /\ bpc = "decoded"
    /\ decoded.ok
    /\ encoded' = into_vec(decoded.val)
    /\ bpc' = "encoded"
    /\ UNCHANGED <<data, decoded, redecoded, overflow_checks, mvars, hvars, pvars, fvars, tvars, uvars, cvars, lvars>>

\* from_slice(bytes) of the bytes just encoded
Redecode ==
    /\ bpc = "encoded"
    /\ redecoded' = from_slice(encoded, overflow_checks)
    /\ bpc' = "done"
    /\ UNCHANGED <<data, decoded, encoded, overflow_checks, mvars, hvars, pvars, fvars, tvars, uvars, cvars, lvars>>

BencodeNext == Decode \/ Encode \/ Redecode

SpecBencode == BencodeInit /\ [][BencodeNext]_vars

(***************************************************************************)
(* The codec pipeline on an encoding that was cut short.                   *)
(***************************************************************************)

TruncatedInit ==
    /\ data \in Truncations
    /\ decoded = None
    /\ encoded = <<>>
    /\ redecoded = None
    /\ bpc = "start"
    /\ overflow_checks \in BOOLEAN
    /\ MetainfoIdle /\ HandshakeIdle /\ PeerIdle /\ FrameIdle /\ TrackerIdle /\ BitFieldIdle /\ ClientIdle /\ PoolIdle

TruncatedNext == Decode

SpecTruncated == TruncatedInit /\ [][TruncatedNext]_vars

(***************************************************************************)
(* The binder on two encodings of one info dictionary: mdata[1] has the    *)
(* entries in ascending key order, mdata[2] in any order.                  *)
(***************************************************************************)

MetainfoInit ==
    /\ \E entries \in EntryLists :
         \E p \in Orders(Len(entries)) :
            mdata = <<DictOf(entries, [j \in 1..Len(entries) |-> j]), DictOf(entries, p)>>
    /\ minfo = <<NoResult, NoResult>>
    /\ BencodeCalled /\ HandshakeIdle /\ PeerIdle /\ FrameIdle /\ TrackerIdle /\ BitFieldIdle /\ ClientIdle /\ PoolIdle

\* The info dictionary mdata[i] is decoded and bound.
BindInfo ==
    /\ \E i \in 1..2 :
         /\ minfo[i] = NoResult
         /\ minfo' = [minfo EXCEPT ![i] = LoadInfo(mdata[i], overflow_checks)]
    /\ UNCHANGED <<mdata, bvars, hvars, pvars, fvars, tvars, uvars, cvars, lvars>>

MetainfoNext == BindInfo

SpecMetainfo == MetainfoInit /\ [][MetainfoNext]_vars

(***************************************************************************)
(* The handshake codec: a message is serialised, or the worker's own       *)
(* handshake is built, or 68 bytes arrive; the 68 bytes are parsed.        *)
(***************************************************************************)

HandshakeInit ==
    /\ hmsg \in HandshakeMessages
    /\ hwire = <<>>
    /\ hsrc = "start"
    /\ hparsed = NoResult
    /\ BencodeIdle /\ MetainfoIdle /\ PeerIdle /\ FrameIdle /\ TrackerIdle /\ BitFieldIdle /\ ClientIdle /\ PoolIdle

\* hmsg.to_bytes()
Serialise ==
    /\ hsrc = "start"
    /\ hwire' = to_bytes(hmsg)
    /\ hsrc' = "to_bytes"
    /\ UNCHANGED <<hmsg, hparsed, bvars, mvars, pvars, fvars, tvars, uvars, cvars, lvars>>

\* The handshake that PeerConnection::handshake builds for hmsg's info hash and
\* peer id.
BuildOurs ==
    /\ hsrc = "start"
    /\ hwire' = OurHandshake(hmsg.info_hash, hmsg.peer_id)
    /\ hsrc' = "handshake"
    /\ UNCHANGED <<hmsg, hparsed, bvars, mvars, pvars, fvars, tvars, uvars, cvars, lvars>>

\* 68 bytes read from a remote.
Arrive ==
    /\ hsrc = "start"
    /\ hwire' \in RawHandshakes
    /\ hsrc' = "remote"
    /\ UNCHANGED <<hmsg, hparsed, bvars, mvars, pvars, fvars, tvars, uvars, cvars, lvars>>

\* HandshakeMessage::from_bytes(hwire)
Parse ==
    /\ hsrc \in {"to_bytes", "handshake", "remote"}
    /\ hparsed = NoResult
    /\ hparsed' = from_bytes(hwire)
    /\ UNCHANGED <<hmsg, hwire, hsrc, bvars, mvars, pvars, fvars, tvars, uvars, cvars, lvars>>

HandshakeNext == Serialise \/ BuildOurs \/ Arrive \/ Parse

SpecHandshake == HandshakeInit /\ [][HandshakeNext]_vars

(***************************************************************************)
(* One worker (Peering::go) that has taken one peer off the queue:         *)
(* Peering::connect, which is TcpStream::connect_timeout and then          *)
(* PeerConnection::handshake, and the recv loop.  wpc is the worker's      *)
(* position: "connect", "write_all", "read_exact", "from_bytes" (the three *)
(* steps of handshake), "recv" (the inner loop), "next_peer" (connect gave *)
(* None and the outer loop continues).                                     *)
(***************************************************************************)

\* Ok(Self { transport, peer_id: response.peer_id })
PeerConnection_new_info_hash(response) == [peer_id |-> response.info_hash]

PeerConnection_new(response) == [peer_id |-> response.peer_id]

\* The arms of the worker's match on a received message.
on_message(message, flag) ==
    CASE message[1] = "Choke"   -> TRUE
      [] message[1] = "UnChoke" -> FALSE
      [] OTHER                  -> flag

PeerInit ==
    /\ host_order \in {"little", "big"}
    /\ torrent_info_hash \in {x \in Sha1s : x[1] = 1}
    /\ client_id \in {x \in PeerIds : x[1] = 1}
    /\ peer_out \in PeerStreams
    /\ rpos = 0
    /\ sent = <<>>
    /\ io = "none"
    /\ hs_bytes = <<>>
    /\ hresult = NoResult
    /\ wpc = "connect"
    /\ choked = TRUE
    /\ received = <<>>
    /\ BencodeIdle /\ MetainfoIdle /\ HandshakeIdle /\ FrameIdle /\ TrackerIdle /\ BitFieldIdle /\ ClientIdle /\ PoolIdle

\* TcpStream::connect_timeout(..).ok()? : the connection is made or connect
\* returns None.
Connect ==
    /\ wpc = "connect"
    /\ \E connected \in BOOLEAN :
         /\ io' = IF connected THEN "connected" ELSE "connect_err"
         /\ wpc' = IF connected THEN "write_all" ELSE "next_peer"
    /\ UNCHANGED <<host_order, torrent_info_hash, client_id, peer_out, rpos, sent,
                   hs_bytes, hresult, choked, received, bvars, mvars, hvars, fvars, tvars, uvars, cvars, lvars>>

\* let mut bytes = HandshakeMessage::new(..).to_bytes();
\* transport.write_all(bytes.as_ref())? : all 68 bytes are written, or the write
\* fails after some of them and handshake returns the I/O error.
HandshakeWrite ==
    /\ wpc = "write_all"
    /\ hs_bytes' = OurHandshake(torrent_info_hash, client_id)
    /\ \/ /\ sent' = hs_bytes'
          /\ io' = "write_ok"
          /\ hresult' = hresult
          /\ wpc' = "read_exact"
       \/ /\ \E n \in WritePrefixes : sent' = SubSeq(hs_bytes', 1, n)
          /\ io' = "write_err"
          /\ hresult' = Err(<<"IoKind", "Other">>)
          /\ wpc' = "next_peer"
    /\ UNCHANGED <<host_order, torrent_info_hash, client_id, peer_out, rpos,
                   choked, received, bvars, mvars, hvars, fvars, tvars, uvars, cvars, lvars>>

\* transport.read_exact(bytes.as_mut())? : the buffer is filled with the next 68
\* bytes of the peer, or the peer's bytes end before that and handshake returns
\* the I/O error (the buffer then holds what was read over what was written).
HandshakeRead ==
    /\ wpc = "read_exact"
    /\ LET avail == Len(peer_out) - rpos
       IN  IF avail >= 68
           THEN /\ hs_bytes' = SubSeq(peer_out, rpos + 1, rpos + 68)
                /\ rpos' = rpos + 68
                /\ io' = "read_ok"
                /\ hresult' = hresult
                /\ wpc' = "from_bytes"
           ELSE /\ hs_bytes' = CopyFromSlice(hs_bytes, 0, avail,
                                             SubSeq(peer_out, rpos + 1, Len(peer_out)))
                /\ rpos' = Len(peer_out)
                /\ io' = "read_err"
                /\ hresult' = Err(<<"IoKind", "UnexpectedEof">>)
                /\ wpc' = "next_peer"
    /\ UNCHANGED <<host_order, torrent_info_hash, client_id, peer_out, sent,
                   choked, received, bvars, mvars, hvars, fvars, tvars, uvars, cvars, lvars>>

\* let response = HandshakeMessage::from_bytes(bytes)?;
\* Ok(Self { transport, peer_id: response.peer_id })
HandshakeValidate ==
    /\ wpc = "from_bytes"
    /\ LET response == from_bytes(hs_bytes)
       IN  IF response.ok
           THEN /\ hresult' = Ok(PeerConnection_new(response.val))
                /\ wpc' = "recv"
           ELSE /\ hresult' = Err(<<"HandshakeResponse">> \o response.err)
                /\ wpc' = "next_peer"
    /\ UNCHANGED <<host_order, torrent_info_hash, client_id, peer_out, rpos, sent,
                   io, hs_bytes, choked, received, bvars, mvars, hvars, fvars, tvars, uvars, cvars, lvars>>

\* One turn of the worker's inner loop: connection.recv() and the match on its
\* result; both arms go round the loop again.
Recv ==
    /\ wpc = "recv"
    /\ Len(received) < MaxRecv
    /\ LET r == recv(SubSeq(peer_out, rpos + 1, Len(peer_out)), host_order)
       IN  /\ received' = Append(received, r.res)
           /\ rpos' = rpos + r.used
           /\ io' = IF r.res.ok \/ r.res.err[1] # "IoKind" THEN "read_ok" ELSE "read_err"
           /\ choked' = IF r.res.ok THEN on_message(r.res.val, choked) ELSE choked
    /\ UNCHANGED <<host_order, torrent_info_hash, client_id, peer_out, sent,
                   hs_bytes, hresult, wpc, bvars, mvars, hvars, fvars, tvars, uvars, cvars, lvars>>

PeerNext == Connect \/ HandshakeWrite \/ HandshakeRead \/ HandshakeValidate \/ Recv

SpecPeer == PeerInit /\ [][PeerNext]_vars

(***************************************************************************)
(* The message codec: a message is written with send, or a remote's bytes  *)
(* arrive; recv is called on the bytes.                                    *)
(***************************************************************************)

FrameInit ==
    /\ fhost \in {"little", "big"}
    /\ fmsg \in Messages
    /\ fwire = <<>>
    /\ fsrc = "start"
    /\ fres = NoRecv
    /\ fsent = NoResult
    /\ BencodeIdle /\ MetainfoIdle /\ HandshakeIdle /\ PeerIdle /\ TrackerIdle /\ BitFieldIdle /\ ClientIdle /\ PoolIdle

\* PeerConnection::send: let bytes: Vec<u8> = message.into();
\* self.transport.write_all(bytes.as_slice())?; Ok(()) : the whole frame is
\* written and send returns Ok(()), or a write fails after fewer bytes than the
\* frame has and send returns the I/O error.
Send ==
    /\ fsrc = "start"
    /\ ~Message_to_bytes_panics(fmsg)
    /\ LET bytes == Message_to_bytes(fmsg, fhost)
       IN  \/ /\ fwire' = bytes
              /\ fsent' = Ok(<<>>)
              /\ fsrc' = "send"
           \/ /\ \E n \in 0..(Len(bytes) - 1) : fwire' = SubSeq(bytes, 1, n)
              /\ fsent' = Err(<<"IoKind", "Other">>)
              /\ fsrc' = "send_err"
    /\ UNCHANGED <<fhost, fmsg, fres, bvars, mvars, hvars, pvars, tvars, uvars, cvars, lvars>>

\* PeerConnection::send of a message whose to_bytes is todo!(): the thread
\* panics and nothing is written.
SendPanics ==
    /\ fsrc = "start"
    /\ Message_to_bytes_panics(fmsg)
    /\ fsrc' = "panic"
    /\ UNCHANGED <<fhost, fmsg, fwire, fres, fsent, bvars, mvars, hvars, pvars, tvars, uvars, cvars, lvars>>

\* The remote's bytes are on the transport.
ArriveFrames ==
    /\ fsrc = "start"
    /\ fwire' \in RemoteStreams
    /\ fsrc' = "remote"
    /\ UNCHANGED <<fhost, fmsg, fres, fsent, bvars, mvars, hvars, pvars, tvars, uvars, cvars, lvars>>

\* PeerConnection::recv on the bytes.
RecvFrame ==
    /\ fsrc \in {"send", "remote"}
    /\ fres = NoRecv
    /\ fres' = recv(fwire, fhost)
    /\ UNCHANGED <<fhost, fmsg, fwire, fsrc, fsent, bvars, mvars, hvars, pvars, tvars, uvars, cvars, lvars>>

FrameNext == Send \/ SendPanics \/ ArriveFrames \/ RecvFrame

SpecFrame == FrameInit /\ [][FrameNext]_vars

(***************************************************************************)
(* One call of HttpTracker::announce: the scheme test, the HTTP round trip *)
(* (a blocking call whose outcome thttp the environment decides), and the  *)
(* handling of the response body.                                          *)
(***************************************************************************)

TrackerInit ==
    /\ turl \in { [scheme |-> sc] : sc \in Schemes }
    /\ thttp \in HttpOutcomes
    /\ tsent = 0
    /\ tpc = "scheme"
    /\ tres = NoResult
    /\ BencodeCalled /\ MetainfoIdle /\ HandshakeIdle /\ PeerIdle /\ FrameIdle /\ BitFieldIdle /\ ClientIdle /\ PoolIdle

\* if !(url.scheme() != "http" || url.scheme() != "https") { return Err(..) }
CheckScheme ==
    /\ tpc = "scheme"
    /\ IF scheme_rejected(turl.scheme)
       THEN tres' = UnsupportedProtocol(turl.scheme) /\ tpc' = "done"
       ELSE tres' = tres /\ tpc' = "request"
    /\ UNCHANGED <<turl, thttp, tsent, bvars, mvars, hvars, pvars, fvars, uvars, cvars, lvars>>

\* self.http_client.get(..).send() and tracker_response.bytes(): the request is
\* sent; a failure of either is AnnounceRequestError.
HttpRoundTrip ==
    /\ tpc = "request"
    /\ tsent' = tsent + 1
    /\ CASE thttp[1] = "send_err" ->
              tres' = AnnounceRequestError("send request to tracker failed") /\ tpc' = "done"
         [] thttp[1] = "bytes_err" ->
              tres' = AnnounceRequestError("failed to retrieve response body") /\ tpc' = "done"
         [] thttp[1] = "body" -> tres' = tres /\ tpc' = "response"
    /\ UNCHANGED <<turl, thttp, bvars, mvars, hvars, pvars, fvars, uvars, cvars, lvars>>

\* The rest of announce on the body.
HandleResponse ==
    /\ tpc = "response"
    /\ tres' = announce_response(thttp[2], overflow_checks)
    /\ tpc' = "done"
    /\ UNCHANGED <<turl, thttp, tsent, bvars, mvars, hvars, pvars, fvars, uvars, cvars, lvars>>

TrackerNext == CheckScheme \/ HttpRoundTrip \/ HandleResponse

SpecTracker == TrackerInit /\ [][TrackerNext]_vars

(***************************************************************************)
(* One BitField and one iterator made from it: BitField::new, get_bit and  *)
(* set_bit on the field, From<BitField> for BitFieldIterator (which takes  *)
(* the field by value, so the field is used no more), next.                *)
(***************************************************************************)

\* The BitField has not been moved into an iterator.
FieldOwned == position = 8 /\ yielded = <<>> /\ ~exhausted

BitFieldInit ==
    /\ bf_value \in 0..255
    /\ got = <<>>
    /\ bf_panicked = FALSE
    /\ bit_field = 0
    /\ position = 8
    /\ yielded = <<>>
    /\ exhausted = FALSE
    /\ BencodeIdle /\ MetainfoIdle /\ HandshakeIdle /\ PeerIdle /\ FrameIdle /\ TrackerIdle /\ ClientIdle /\ PoolIdle

\* BitField::get_bit(position): the bit, or a panic when position >= 8.
GetBit ==
    /\ ~bf_panicked
    /\ FieldOwned
    /\ \E p \in 0..8 :
         IF p < 8
         THEN /\ got' = <<p, get_bit(bf_value, p)>>
              /\ UNCHANGED bf_panicked
         ELSE /\ bf_panicked' = TRUE
              /\ UNCHANGED got
    /\ UNCHANGED <<bf_value, bit_field, position, yielded, exhausted,
                   bvars, mvars, hvars, pvars, fvars, tvars, cvars, lvars>>

\* BitField::set_bit(position, bit_value): the bit is set or cleared, or a panic
\* when position >= 8.
SetBit ==
    /\ ~bf_panicked
    /\ FieldOwned
    /\ \E p \in 0..8, bit_value \in BOOLEAN :
         IF p < 8
         THEN /\ bf_value' = set_bit(bf_value, p, bit_value)
              /\ UNCHANGED bf_panicked
         ELSE /\ bf_panicked' = TRUE
              /\ UNCHANGED bf_value
    /\ UNCHANGED <<got, bit_field, position, yielded, exhausted,
                   bvars, mvars, hvars, pvars, fvars, tvars, cvars, lvars>>

\* BitFieldIterator::from(bit_field): position 0.
IntoIterator ==
    /\ ~bf_panicked
    /\ FieldOwned
    /\ bit_field' = bf_value
    /\ position' = 0
    /\ UNCHANGED <<bf_value, got, bf_panicked, yielded, exhausted,
                   bvars, mvars, hvars, pvars, fvars, tvars, cvars, lvars>>

\* BitFieldIterator::next: None at position 8, else the bit at the position,
\* and the position moves on.
IteratorNext ==
    /\ ~bf_panicked
    /\ position < 8 \/ Len(yielded) = 8
    /\ ~exhausted
    /\ IF position >= 8
       THEN /\ exhausted' = TRUE
            /\ UNCHANGED <<position, yielded, cvars, lvars>>
       ELSE /\ yielded' = Append(yielded, get_bit(bit_field, position))
            /\ position' = position + 1
            /\ UNCHANGED exhausted
    /\ UNCHANGED <<bf_value, got, bf_panicked, bit_field,
                   bvars, mvars, hvars, pvars, fvars, tvars, cvars, lvars>>

BitFieldNext == GetBit \/ SetBit \/ IntoIterator \/ IteratorNext

SpecBitField == BitFieldInit /\ [][BitFieldNext]_vars

(***************************************************************************)
(* One session as in main: a Config is made, Client::new binds the inbound *)
(* listener, download is called once.                                      *)
(***************************************************************************)

ClientInit ==
    /\ connection_numbers = 0
    /\ cpc = "config"
    /\ announces = 0
    /\ torrent_info = NoResult
    /\ leeched = <<>>
    /\ download_result = NoResult
    /\ BencodeCalled /\ MetainfoIdle /\ HandshakeIdle /\ PeerIdle /\ FrameIdle /\ TrackerIdle /\ PoolIdle
    /\ BitFieldIdle

\* Config::new(n)
ConfigNew ==
    /\ cpc = "config"
    /\ \E n \in 0..MaxConnections :
         LET config == Config_new(n)
         IN  IF config.ok
             THEN connection_numbers' = config.val.connection_numbers /\ cpc' = "client"
             ELSE connection_numbers' = connection_numbers /\ cpc' = "panicked"
    /\ UNCHANGED <<announces, torrent_info, leeched, download_result,
                   bvars, mvars, hvars, pvars, fvars, tvars, uvars, lvars>>

\* Config::default()
ConfigDefault ==
    /\ cpc = "config"
    /\ connection_numbers' = Config_default.val.connection_numbers
    /\ cpc' = "client"
    /\ UNCHANGED <<announces, torrent_info, leeched, download_result,
                   bvars, mvars, hvars, pvars, fvars, tvars, uvars, lvars>>

\* Client::new: TcpListener::bind succeeds, or its error is InboundConnection.
ClientNew ==
    /\ cpc = "client"
    /\ \E bound \in BOOLEAN : cpc' = IF bound THEN "download" ELSE "bind_err"
    /\ UNCHANGED <<connection_numbers, announces, torrent_info, leeched, download_result,
                   bvars, mvars, hvars, pvars, fvars, tvars, uvars, lvars>>

\* Client::download: one call of tracker_client.announce and the rest of the
\* function on its result.
Download ==
    /\ cpc = "download"
    /\ \E announced \in AnnounceResults[overflow_checks] :
         /\ announces' = announces + 1
         /\ torrent_info' = announced
         /\ leeched' = download(announced).leeched
         /\ download_result' = download(announced).result
    /\ cpc' = "done"
    /\ UNCHANGED <<connection_numbers, bvars, mvars, hvars, pvars, fvars, tvars, uvars, lvars>>

ClientNext == ConfigNew \/ ConfigDefault \/ ClientNew \/ Download

SpecClient == ClientInit /\ [][ClientNext]_vars

(***************************************************************************)
(* The worker pool: Leeching::new on a list of peers, for a client whose   *)
(* Config holds connection_numbers; the main thread sends the peers, spawns *)
(* the workers and joins them; every worker runs Peering::go.              *)
(***************************************************************************)

\* The Sender made in Leeching::new lives until the function returns.
SenderAlive == lpc # "returned"

PoolInit ==
    /\ lpc = "send"
    /\ peers_given \in PeerLists
    /\ free_peers = <<>>
    /\ spawned = 0
    /\ joined = 0
    /\ guard = 0
    /\ peering = <<>>
    /\ taken = <<>>
    /\ connection_numbers = MaxConnections
    /\ cpc = "leeching"
    /\ announces = 1
    /\ torrent_info = NoResult
    /\ leeched = <<>>
    /\ download_result = NoResult
    /\ BencodeIdle /\ MetainfoIdle /\ HandshakeIdle /\ PeerIdle /\ FrameIdle /\ TrackerIdle
    /\ BitFieldIdle

\* The next step of the thread that runs Leeching::new: all the peers are sent
\* into the channel; a worker thread is spawned (WorkerCount times); the
\* handle popped last is joined once its thread has ended; after the last join
\* the function returns and the sender is dropped.
LeechingNew ==
    /\ CASE lpc = "send" ->
              /\ free_peers' = [k \in 1..Len(peers_given) |-> k]
              /\ lpc' = "spawn"
              /\ UNCHANGED <<spawned, joined, peering>>
         [] lpc = "spawn" ->
              /\ spawned' = spawned + 1
              /\ peering' = Append(peering, Peering_new)
              /\ lpc' = IF spawned' = WorkerCount THEN "join" ELSE "spawn"
              /\ UNCHANGED <<free_peers, joined>>
         [] lpc = "join" ->
              /\ peering[spawned - joined].pc = "exit"
              /\ joined' = joined + 1
              /\ lpc' = IF joined' = spawned THEN "returned" ELSE "join"
              /\ UNCHANGED <<free_peers, spawned, peering>>
         [] OTHER -> FALSE
    /\ UNCHANGED <<peers_given, guard, taken,
                   bvars, mvars, hvars, pvars, fvars, tvars, uvars, cvars>>

\* self.free_peers.lock().unwrap(): the worker waits until the mutex is free.
Lock(w) ==
    /\ peering[w].pc = "lock"
    /\ guard = 0
    /\ guard' = w
    /\ peering' = [peering EXCEPT ![w].pc = "recv"]
    /\ UNCHANGED <<lpc, peers_given, free_peers, spawned, joined, taken,
                   bvars, mvars, hvars, pvars, fvars, tvars, uvars, cvars>>

\* guard.recv() under the lock: Ok(peer) goes on to drop(guard); Err(_) breaks
\* out of the loop, and the guard is dropped as go returns.
QueueRecv(w) ==
    /\ peering[w].pc = "recv"
    /\ LET r == Receiver_recv(free_peers, SenderAlive)
       IN  /\ r.ready
           /\ free_peers' = r.queue
           /\ IF r.res.ok
              THEN /\ peering' = [peering EXCEPT ![w].pc = "drop", ![w].peer = r.res.val]
                   /\ taken' = Append(taken, <<w, r.res.val>>)
                   /\ guard' = guard
              ELSE /\ peering' = [peering EXCEPT ![w].pc = "exit"]
                   /\ taken' = taken
                   /\ guard' = 0
    /\ UNCHANGED <<lpc, peers_given, spawned, joined,
                   bvars, mvars, hvars, pvars, fvars, tvars, uvars, cvars>>

\* drop(guard)
DropGuard(w) ==
    /\ peering[w].pc = "drop"
    /\ guard' = 0
    /\ peering' = [peering EXCEPT ![w].pc = "connect"]
    /\ UNCHANGED <<lpc, peers_given, free_peers, spawned, joined, taken,
                   bvars, mvars, hvars, pvars, fvars, tvars, uvars, cvars>>

\* self.connect(peer): None => continue, Some(c) => the inner loop.
ConnectPeer(w) ==
    /\ peering[w].pc = "connect"
    /\ \E connection \in BOOLEAN :
         peering' = [peering EXCEPT ![w].pc = IF connection THEN "loop" ELSE "lock"]
    /\ UNCHANGED <<lpc, peers_given, free_peers, spawned, joined, guard, taken,
                   bvars, mvars, hvars, pvars, fvars, tvars, uvars, cvars>>

\* One turn of the inner loop: connection.recv() gives a message or an error,
\* the match sets the choked flag, and the loop goes round again.
RecvLoop(w) ==
    /\ peering[w].pc = "loop"
    /\ \E r \in RecvOutcomes :
         peering' = [peering EXCEPT
                       ![w].choked = IF r.ok THEN on_message(r.val, peering[w].choked)
                                     ELSE peering[w].choked]
    /\ UNCHANGED <<lpc, peers_given, free_peers, spawned, joined, guard, taken,
                   bvars, mvars, hvars, pvars, fvars, tvars, uvars, cvars>>

\* Peering::go: the next step of worker w.
Go(w) == Lock(w) \/ QueueRecv(w) \/ DropGuard(w) \/ ConnectPeer(w) \/ RecvLoop(w)

PoolNext == LeechingNew \/ \E w \in 1..spawned : Go(w)

SpecPool == PoolInit /\ [][PoolNext]_vars

(***************************************************************************)
(* The bencode grammar, read off a slice without building a Value: used to *)
(* state which slices are well formed, canonical, or have sorted keys.     *)
(* Wire(d) is [ok, rest, canon, sorted, body]: one encoding was recognised *)
(* at the head of d and rest follows it; canon: no integer text and no     *)
(* length text in it has a redundant zero or is -0; sorted: the keys of    *)
(* every dictionary in it are strictly ascending; body: the bytes of a     *)
(* string.                                                                 *)
(***************************************************************************)

WireFail == [ok |-> FALSE, rest |-> <<>>, canon |-> FALSE, sorted |-> FALSE, body |-> <<>>]

WireOk(rest, canon, sorted, body) ==
    [ok |-> TRUE, rest |-> rest, canon |-> canon, sorted |-> sorted, body |-> body]

\* 1-based position of the first byte b in d, or 0.
FirstIndex(d, b) ==
    IF \E j \in 1..Len(d) : d[j] = b
    THEN CHOOSE j \in 1..Len(d) : d[j] = b /\ \A h \in 1..(j - 1) : d[h] # b
    ELSE 0

AllDigits(t) == t # <<>> /\ \A j \in 1..Len(t) : IsDigit(t[j])

\* Decimal text without a redundant leading zero.
CanonNat(t) == AllDigits(t) /\ (Len(t) = 1 \/ t[1] # Ord("0"))

\* Integer text: an optional '-' and digits, within 64 bits.
IntText(t) ==
    LET neg == t # <<>> /\ t[1] = Ord("-")
        ds  == IF neg THEN Tail(t) ELSE t
    IN  AllDigits(ds) /\ ~Exceeds(ds, IF neg THEN I64MinDigits ELSE I64MaxDigits)

\* Canonical integer text: 0, or an optional '-' and digits that start with 1..9.
CanonInt(t) ==
    LET neg == t # <<>> /\ t[1] = Ord("-")
        ds  == IF neg THEN Tail(t) ELSE t
    IN  CanonNat(ds) /\ ~(neg /\ ds = <<Ord("0")>>)

WireInt(d) ==
    LET p == FirstIndex(d, Ord("e"))
    IN  IF p = 0 \/ ~IntText(SubSeq(d, 2, p - 1)) THEN WireFail
        ELSE WireOk(SubSeq(d, p + 1, Len(d)), CanonInt(SubSeq(d, 2, p - 1)), TRUE, <<>>)

WireStr(d) ==
    LET c == FirstIndex(d, Ord(":"))
    IN  IF c = 0 \/ ~AllDigits(SubSeq(d, 1, c - 1)) THEN WireFail
        ELSE IF Exceeds(SubSeq(d, 1, c - 1), NatToString(Len(d))) THEN WireFail
        ELSE LET n == DigitsValue(SubSeq(d, 1, c - 1))
             IN  IF c + n > Len(d) THEN WireFail
                 ELSE WireOk(SubSeq(d, c + n + 1, Len(d)), CanonNat(SubSeq(d, 1, c - 1)),
                             TRUE, SubSeq(d, c + 1, c + n))

RECURSIVE Wire(_), WireItems(_, _, _), WirePairs(_, _, _, _, _)

WireItems(d, canon, sorted) ==
    IF d = <<>> THEN WireFail
    ELSE IF d[1] = Ord("e") THEN WireOk(Tail(d), canon, sorted, <<>>)
    ELSE LET x == Wire(d)
         IN  IF ~x.ok THEN WireFail
             ELSE WireItems(x.rest, canon /\ x.canon, sorted /\ x.sorted)

\* first: no key was read yet; prev: the key read last.
WirePairs(d, first, prev, canon, sorted) ==
    IF d = <<>> THEN WireFail
    ELSE IF d[1] = Ord("e") THEN WireOk(Tail(d), canon, sorted, <<>>)
    ELSE IF ~IsDigit(d[1]) THEN WireFail
    ELSE LET key == WireStr(d)
         IN  IF ~key.ok THEN WireFail
             ELSE LET x == Wire(key.rest)
                  IN  IF ~x.ok THEN WireFail
                      ELSE WirePairs(x.rest, FALSE, key.body,
                                     canon /\ key.canon /\ x.canon,
                                     sorted /\ x.sorted /\ (first \/ ByteLess(prev, key.body)))

Wire(d) ==
    IF d = <<>> THEN WireFail
    ELSE IF d[1] = Ord("i") THEN WireInt(d)
    ELSE IF d[1] = Ord("l") THEN WireItems(Tail(d), TRUE, TRUE)
    ELSE IF d[1] = Ord("d") THEN WirePairs(Tail(d), TRUE, <<>>, TRUE, TRUE)
    ELSE IF IsDigit(d[1]) THEN WireStr(d)
    ELSE WireFail

\* d is exactly one encoding of the grammar.
WellFormed(d) == Wire(d).ok /\ Wire(d).rest = <<>>

\* d is exactly one canonical encoding.
Canonical(d) == WellFormed(d) /\ Wire(d).canon /\ Wire(d).sorted

\* d is exactly one encoding and all its dictionaries have strictly ascending keys.
KeysAscending(d) == WellFormed(d) /\ Wire(d).sorted

\* d is one integer encoding i<text>e.
IsIntEncoding(d) == d # <<>> /\ d[1] = Ord("i") /\ WellFormed(d)

Encoded == bpc \in {"encoded", "done"}

(***************************************************************************)
(* Claims about the codec                                                  *)
(***************************************************************************)

\* C1: every Value V that from_slice produced is returned again by
\* from_slice(into_vec(V)).
C1_RoundTripValue == bpc = "done" => redecoded = Ok(decoded.val)

\* A dictionary holding a negative integer and another entry went through decode,
\* encode, decode.
C1_Witness ==
    /\ bpc = "done"
    /\ Tag(decoded.val) = "Dict"
    /\ Len(Payload(decoded.val)) = 2
    /\ \E j \in 1..2 : Payload(decoded.val)[j].v = ValueInt(-3)
    /\ redecoded = Ok(decoded.val)

\* C2: a canonical slice B holding one value decodes, and encoding the value
\* gives exactly the bytes of B.
C2_RoundTripCanonical ==
    /\ (bpc = "decoded" /\ Canonical(data)) => decoded.ok
    /\ (Encoded /\ Canonical(data)) => encoded = data

\* A canonical dictionary of two keys was decoded and encoded.
C2_Witness ==
    /\ bpc = "encoded"
    /\ Canonical(data)
    /\ Tag(decoded.val) = "Dict"
    /\ Len(Payload(decoded.val)) = 2
    /\ encoded = data

\* C3: the encoder's output has strictly ascending keys in every dictionary at
\* every nesting level, and a well-formed slice decodes whatever the order of
\* its keys.
C3_DictionaryCanonicity ==
    /\ (bpc = "decoded" /\ WellFormed(data)) => decoded.ok
    /\ Encoded => KeysAscending(encoded)

\* A list holding a dictionary with descending keys was decoded and encoded with
\* the keys ascending.
C3_Witness ==
    /\ bpc = "encoded"
    /\ data # <<>> /\ data[1] = Ord("l")
    /\ WellFormed(data) /\ ~Wire(data).sorted
    /\ KeysAscending(encoded)
    /\ Len(encoded) = Len(data)

\* C4 as stated: every integer encoding the decoder accepts is encoded back to
\* the same bytes.
C4_IntegerBitExact == (Encoded /\ IsIntEncoding(data)) => encoded = data

\* C4 amended: an accepted integer encoding is encoded back as the canonical
\* decimal text of its number, which is the input exactly when the input text is
\* canonical; i007e comes back as i7e and i-0e as i0e.
C4_IntegerCanonicalised ==
    (Encoded /\ IsIntEncoding(data)) =>
        /\ Canonical(encoded)
        /\ from_slice(encoded, overflow_checks) = decoded
        /\ (encoded = data <=> Canonical(data))

\* A zero-padded integer was accepted and came back shorter.
C4_Witness ==
    /\ bpc = "encoded"
    /\ IsIntEncoding(data)
    /\ ~Canonical(data)
    /\ Len(encoded) < Len(data)

(***************************************************************************)
(* Metainfo: the info fingerprint                                          *)
(***************************************************************************)

\* C5: the info_hash that Info::from_bencode produces is the SHA-1 of the
\* re-encoding of the whole info dictionary (the entries in ascending key order,
\* which is what mdata[1] holds) and does not depend on the order of the keys in
\* the input: the two inputs, which hold the same entries in different orders,
\* bind to the same result and to the same info_hash.
C5_InfoHashKeyOrder ==
    /\ \A i \in 1..2 :
         (minfo[i] # NoResult /\ minfo[i].ok) => minfo[i].val.info_hash = Sha1Digest(mdata[1])
    /\ (minfo[1] # NoResult /\ minfo[2] # NoResult) => minfo[1] = minfo[2]

C5_Witness ==
    /\ mdata[1] # mdata[2]
    /\ minfo[1] # NoResult /\ minfo[1].ok
    /\ minfo[2] # NoResult /\ minfo[2].ok
    /\ minfo[2].val.info_hash = Sha1Digest(mdata[1])
    /\ Len(minfo[2].val.pieces) = 2

(***************************************************************************)
(* Handshake                                                               *)
(***************************************************************************)

\* "BitTorrent protocol" in ASCII.
PstrLiteral ==
    <<66, 105, 116, 84, 111, 114, 114, 101, 110, 116, 32,
      112, 114, 111, 116, 111, 99, 111, 108>>

\* The worker's handshake has gone through write, read and validation.
Open == hresult # NoResult /\ hresult.ok

Failed == hresult # NoResult /\ ~hresult.ok

C6_State ==
    /\ Len(sent) <= 68
    /\ received # <<>> => Open
    /\ wpc = "recv" <=> Open
    /\ Open =>
         /\ Len(sent) = 68 /\ sent = OurHandshake(torrent_info_hash, client_id)
         /\ rpos >= 68
         /\ hs_bytes = SubSeq(peer_out, 1, 68)
         /\ hs_bytes[1] = 19 /\ SubSeq(hs_bytes, 2, 20) = PstrLiteral
         /\ hresult.val.peer_id = SubSeq(peer_out, 49, 68)
    /\ Failed =>
         /\ wpc = "next_peer"
         /\ received = <<>>
         /\ \/ /\ io = "write_err" /\ Len(sent) < 68 /\ rpos = 0
               /\ hresult.err[1] = "IoKind"
            \/ /\ io = "read_err" /\ Len(sent) = 68 /\ Len(peer_out) < 68
               /\ hresult.err[1] = "IoKind"
            \/ /\ io = "read_ok" /\ Len(sent) = 68 /\ rpos = 68
               /\ hs_bytes = SubSeq(peer_out, 1, 68)
               /\ hs_bytes[1] # 19 \/ SubSeq(hs_bytes, 2, 20) # PstrLiteral
               /\ hresult.err[1] = "HandshakeResponse"
    /\ (io = "write_err" /\ received = <<>>) => Failed
    /\ (io = "read_err" /\ received = <<>>) => Failed

C6_Step ==
    /\ sent' # sent => (wpc = "write_all" /\ sent = <<>> /\ rpos = 0)
    /\ rpos' # rpos => (Len(sent) = 68 /\ (rpos = 0 => wpc = "read_exact"))
    /\ (hresult'.ok /\ ~hresult.ok) =>
         (wpc = "from_bytes" /\ io = "read_ok" /\ Len(sent) = 68 /\ rpos = 68)
    /\ hresult.ok => hresult' = hresult

\* C6: handshake goes Fresh -> write all 68 bytes -> read exactly 68 bytes ->
\* validate.  A connection exists (Open) only after the write, the read and the
\* validation succeeded in that order; a failed write, a failed or short read and
\* a failed validation each give an error and no connection; nothing is read
\* before the handshake is written, no message is received unless Open, nothing
\* but the handshake is sent; the connection's peer id is bytes 48..68 of the
\* reply.
C6_HandshakeOrder == [](C6_State) /\ [][C6_Step]_vars

C6_Witness ==
    /\ Open
    /\ Len(received) >= 1 /\ received[1].ok
    /\ hresult.val.peer_id = SubSeq(peer_out, 49, 68)
    /\ hresult.val.peer_id # SubSeq(peer_out, 29, 48)
    /\ hresult.val.peer_id # client_id

\* C7: from_bytes of 68 bytes fails with ProtocolStringLen(b) when byte 0 is
\* b # 19, whatever the other bytes; fails with ProtocolString when byte 0 is 19
\* and bytes 1..20 are not "BitTorrent protocol"; succeeds in every other case.
C7_HandshakeValidation ==
    hparsed # NoResult =>
        IF hwire[1] # 19 THEN hparsed = Err(<<"ProtocolStringLen", hwire[1]>>)
        ELSE IF SubSeq(hwire, 2, 20) # PstrLiteral
        THEN ~hparsed.ok /\ hparsed.err[1] = "ProtocolString"
        ELSE hparsed.ok

C7_Witness ==
    /\ hsrc = "remote"
    /\ hwire[1] = 18
    /\ SubSeq(hwire, 2, 20) # PstrLiteral
    /\ hparsed = Err(<<"ProtocolStringLen", 18>>)

\* C8: when the reply's info hash differs from the torrent's, the worker closes
\* the connection and receives no framed message from that peer.
C8_MismatchCloses ==
    (Open /\ SubSeq(peer_out, 29, 48) # torrent_info_hash) =>
        \A j \in 1..Len(received) : ~received[j].ok

\* C9: from_bytes(h.to_bytes()) succeeds and gives h back in all three fields.
C9_HandshakeSymmetry ==
    (hsrc = "to_bytes" /\ hparsed # NoResult) => hparsed = Ok(hmsg)

C9_Witness ==
    /\ hsrc = "to_bytes"
    /\ hparsed = Ok(hmsg)
    /\ hmsg.extension_bytes[6] = 16
    /\ hmsg.info_hash[20] = 99

\* The layout of 68 handshake bytes that carry e, f and q.
Layout(w, e, f, q) ==
    /\ Len(w) = 68
    /\ w[1] = 19
    /\ SubSeq(w, 2, 20) = PstrLiteral
    /\ SubSeq(w, 21, 28) = e
    /\ SubSeq(w, 29, 48) = f
    /\ SubSeq(w, 49, 68) = q

\* C10: the handshake written for info hash F and peer id P is 68 bytes: 19,
\* "BitTorrent protocol", eight zero bytes, F at 28..48, P at 48..68; to_bytes
\* puts the extension bytes at 20..28, the info hash at 28..48 and the peer id at
\* 48..68.
C10_HandshakeLayout ==
    /\ hsrc = "handshake" =>
         Layout(hwire, <<0, 0, 0, 0, 0, 0, 0, 0>>, hmsg.info_hash, hmsg.peer_id)
    /\ hsrc = "to_bytes" =>
         Layout(hwire, hmsg.extension_bytes, hmsg.info_hash, hmsg.peer_id)

C10_Witness ==
    /\ hsrc = "handshake"
    /\ hmsg.extension_bytes[1] = 255
    /\ hwire[21] = 0
    /\ hwire[48] = 99
    /\ hwire[49] = 45

(***************************************************************************)
(* Framed messages                                                         *)
(***************************************************************************)

\* The four bytes of n, most significant first.
BE32(n) == <<n \div 16777216, (n \div 65536) % 256, (n \div 256) % 256, n % 256>>

\* The frame of a message as the wire protocol lays it out, big-endian throughout.
BigEndianFrame(m) ==
    CASE m[1] = "KeepAlive"     -> <<0, 0, 0, 0>>
      [] m[1] = "Choke"         -> <<0, 0, 0, 1, 0>>
      [] m[1] = "UnChoke"       -> <<0, 0, 0, 1, 1>>
      [] m[1] = "Interested"    -> <<0, 0, 0, 1, 2>>
      [] m[1] = "NotInterested" -> <<0, 0, 0, 1, 3>>
      [] m[1] = "Have"          -> <<0, 0, 0, 5, 4>> \o BE32(m[2])
      [] m[1] = "Request"       -> <<0, 0, 0, 13, 6>> \o BE32(m[2].index)
                                     \o BE32(m[2].begin) \o BE32(m[2].length)
      [] m[1] = "Cancel"        -> <<0, 0, 0, 13, 8>> \o BE32(m[2].index)
                                     \o BE32(m[2].begin) \o BE32(m[2].length)
      [] m[1] = "Port"          -> <<0, 0, 0, 3, 9, m[2] \div 256, m[2] % 256>>

\* The variants with a fully specified payload.
Specified(m) == m[1] \notin {"Bitfield", "Piece"}

\* recv has been called on the bytes.
Received == fres # NoRecv

\* The length prefix at the head of the bytes, and whether the whole of the first
\* frame is there.
PrefixOf(w) == ((w[1] * 256 + w[2]) * 256 + w[3]) * 256 + w[4]

HasFrame(w) == Len(w) >= 4 /\ Len(w) >= 4 + PrefixOf(w)

\* C11: a message written with send and read back with recv is the same message,
\* for KeepAlive, Choke, Unchoke, Interested, NotInterested, Have, Request,
\* Cancel and Port.
C11_FrameSymmetry ==
    (fsrc = "send" /\ Received) => (fres.res = Ok(fmsg) /\ fres.used = Len(fwire))

\* C12: every multi-byte integer is big-endian on the wire, written and read, on
\* every host: what send writes is the big-endian frame of the message, and
\* recv on the big-endian frame of a message returns that message.
C12_BigEndianWire ==
    /\ fsrc = "send" => fwire = BigEndianFrame(fmsg)
    /\ \A m \in Messages :
         (Specified(m) /\ fsrc = "remote" /\ Received /\ fwire = BigEndianFrame(m))
            => fres.res = Ok(m)

\* C13: a non-empty payload whose first byte is not in 0..9 fails with
\* MessageId(id) whatever follows; one whose first byte is in 0..9 never fails
\* with MessageId.
C13_UnknownMessageId ==
    (Received /\ HasFrame(fwire) /\ PrefixOf(fwire) >= 1) =>
        LET id == fwire[5]
        IN  IF id \in 0..9
            THEN fres.res.ok \/ fres.res.err[1] # "MessageId"
            ELSE fres.res = Err(<<"MessageId", id>>)

C13_Witness ==
    /\ Received
    /\ fsrc = "remote"
    /\ HasFrame(fwire) /\ PrefixOf(fwire) = 5
    /\ fwire[5] = 255
    /\ fres.res = Err(<<"MessageId", 255>>)

\* The body length does not fit the layout of the id.
LengthMismatch(id, n) ==
    \/ id \in 0..3 /\ n # 0
    \/ id = 4 /\ n # 4
    \/ id \in {6, 8} /\ n # 12
    \/ id = 9 /\ n # 2
    \/ id = 7 /\ n < 8

\* C14: a frame whose payload length does not fit its id fails with
\* PayloadLength(len) and is not returned as a Message.
C14_PayloadLength ==
    (Received /\ HasFrame(fwire) /\ PrefixOf(fwire) >= 1
        /\ LengthMismatch(fwire[5], PrefixOf(fwire) - 1)) =>
        /\ ~fres.res.ok
        /\ fres.res.err[1] = "PayloadLength"

\* C15: KeepAlive serialises to four zero bytes; recv returns KeepAlive exactly
\* when the four-byte length prefix is 0, and then it has taken those four bytes
\* and no more.
C15_KeepAlive ==
    /\ (fsrc = "send" /\ fmsg = <<"KeepAlive">>) => fwire = <<0, 0, 0, 0>>
    /\ Received =>
         /\ fres.res = Ok(<<"KeepAlive">>)
              <=> (Len(fwire) >= 4 /\ SubSeq(fwire, 1, 4) = <<0, 0, 0, 0>>)
         /\ fres.res = Ok(<<"KeepAlive">>) => fres.used = 4

C15_Witness ==
    /\ fsrc = "remote"
    /\ fwire = <<0, 0, 0, 0, 9>>
    /\ fres.res = Ok(<<"KeepAlive">>)
    /\ fres.used = 4

\* The offset in w after its first k frames, or -1 when w does not hold k whole
\* frames.
RECURSIVE Boundary(_, _)
Boundary(w, k) ==
    IF k = 0 THEN 0
    ELSE LET b == Boundary(w, k - 1)
         IN  IF b < 0 \/ ~HasFrame(SubSeq(w, b + 1, Len(w))) THEN -1
             ELSE b + 4 + PrefixOf(SubSeq(w, b + 1, b + 4))

\* The payload of the k-th frame of w.
PayloadOf(w, k) == SubSeq(w, Boundary(w, k - 1) + 5, Boundary(w, k))

\* What the peer sends after its handshake reply.
AfterReply == SubSeq(peer_out, 69, Len(peer_out))

\* C16: successive recv calls return the frames in the order of the transport;
\* a recv that reads a whole frame takes exactly 4 + length_prefix bytes, also
\* when the payload does not parse, so the k-th result is that of the k-th frame
\* and after k whole frames the transport stands at the k-th frame boundary.
C16_WireOrder ==
    Open =>
        /\ \A k \in 1..Len(received) :
             Boundary(AfterReply, k) >= 0 =>
                received[k] = IF PayloadOf(AfterReply, k) = <<>> THEN Ok(<<"KeepAlive">>)
                              ELSE Message_try_from(PayloadOf(AfterReply, k), host_order)
        /\ Boundary(AfterReply, Len(received)) >= 0 =>
             rpos = 68 + Boundary(AfterReply, Len(received))

C16_Witness ==
    /\ Open
    /\ Len(received) = 2
    /\ received[1] = Err(<<"MessageId", 77>>)
    /\ received[2] = Ok(<<"UnChoke">>)
    /\ rpos = Len(peer_out)
    /\ choked = FALSE

(***************************************************************************)
(* Tracker                                                                 *)
(***************************************************************************)

\* announce has returned after sending its request.
Announced == tpc = "done" /\ tsent = 1

\* The response body is a dictionary, and the dictionary.
BodyIsDict ==
    /\ thttp[1] = "body"
    /\ from_slice(thttp[2], overflow_checks).ok
    /\ Tag(from_slice(thttp[2], overflow_checks).val) = "Dict"

BodyDict == Payload(from_slice(thttp[2], overflow_checks).val)

\* C17: for an announce URL whose scheme is neither http nor https, announce
\* fails with UnsupportedProtocol(scheme) before any HTTP request is sent; for
\* http and https it never fails with UnsupportedProtocol.
C17_UnsupportedProtocol ==
    /\ (tpc = "done" /\ turl.scheme \notin {"http", "https"}) =>
          (tres = Err(<<"UnsupportedProtocol", turl.scheme>>) /\ tsent = 0)
    /\ turl.scheme \notin {"http", "https"} => tsent = 0
    /\ (tpc = "done" /\ turl.scheme \in {"http", "https"}) =>
          (tres.ok \/ tres.err[1] # "UnsupportedProtocol")

\* C18: a response dictionary with the key "failure reason" gives the error
\* TrackerResponse and no AnnounceResponse, whatever else the dictionary holds;
\* an HTTP failure gives AnnounceRequestError, a body that is no bencoded
\* dictionary gives Bencode, and TrackerResponse is given in no other case.
C18_FailureReason ==
    Announced =>
        /\ (BodyIsDict /\ BTreeHas(BodyDict, KeyFailureReason)) =>
              (~tres.ok /\ tres.err[1] = "TrackerResponse")
        /\ thttp[1] \in {"send_err", "bytes_err"} =>
              (~tres.ok /\ tres.err[1] = "AnnounceRequestError")
        /\ (thttp[1] = "body" /\ ~BodyIsDict) => (~tres.ok /\ tres.err[1] = "Bencode")
        /\ (~tres.ok /\ tres.err[1] = "TrackerResponse") =>
              (BodyIsDict /\ BTreeHas(BodyDict, KeyFailureReason))

C18_Witness ==
    /\ Announced
    /\ BodyIsDict
    /\ BTreeHas(BodyDict, KeyFailureReason)
    /\ BTreeHas(BodyDict, KeyInterval) /\ BTreeGet(BodyDict, KeyInterval) = <<"Int", 1800>>
    /\ BTreeHas(BodyDict, KeyPeers) /\ BTreeGet(BodyDict, KeyPeers)[1] = "String"
    /\ Len(BTreeGet(BodyDict, KeyPeers)[2]) = 6
    /\ tres = Err(<<"TrackerResponse", "reason", <<110, 111>>>>)

\* A verbose peer entry that is malformed.
BadEntry(e) ==
    \/ e[1] # "Dict"
    \/ ~BTreeHas(e[2], KeyIp)
    \/ ~BTreeHas(e[2], KeyPort)
    \/ BTreeGet(e[2], KeyIp)[1] # "String"
    \/ ~IpAddr_parse(BTreeGet(e[2], KeyIp)[2]).ok
    \/ BTreeGet(e[2], KeyPort)[1] # "Int"
    \/ BTreeGet(e[2], KeyPort)[2] \notin 0..65535
    \/ /\ BTreeHas(e[2], KeyPeerId)
       /\ \/ BTreeGet(e[2], KeyPeerId)[1] # "String"
          \/ Len(BTreeGet(e[2], KeyPeerId)[2]) # 20

\* A response dictionary with a malformed field.
Malformed(d) ==
    \/ ~BTreeHas(d, KeyInterval)
    \/ BTreeGet(d, KeyInterval)[1] # "Int"
    \/ ~BTreeHas(d, KeyPeers)
    \/ BTreeGet(d, KeyPeers)[1] \notin {"String", "List"}
    \/ BTreeGet(d, KeyPeers)[1] = "String" /\ Len(BTreeGet(d, KeyPeers)[2]) % 6 # 0
    \/ /\ BTreeGet(d, KeyPeers)[1] = "List"
       /\ \E j \in 1..Len(BTreeGet(d, KeyPeers)[2]) : BadEntry(BTreeGet(d, KeyPeers)[2][j])

\* C19: for a response dictionary without "failure reason", any malformed field
\* makes from_bencode fail with ResponseFormat.
C19_ResponseFormat ==
    (Announced /\ BodyIsDict /\ ~BTreeHas(BodyDict, KeyFailureReason) /\ Malformed(BodyDict))
        => (~tres.ok /\ tres.err[1] = "ResponseFormat")

\* C20: a compact peers string of 6*k bytes gives exactly k peers in input
\* order, none with a peer id; peer i has the IPv4 address of bytes 6i..6i+4 and
\* the port that is the big-endian uint16 of bytes 6i+4..6i+6.
C20_CompactPeers ==
    (/\ Announced /\ BodyIsDict /\ ~BTreeHas(BodyDict, KeyFailureReason)
     /\ BTreeHas(BodyDict, KeyInterval)
     /\ BTreeGet(BodyDict, KeyInterval)[1] = "Int" /\ BTreeGet(BodyDict, KeyInterval)[2] >= 0
     /\ BTreeHas(BodyDict, KeyPeers)
     /\ BTreeGet(BodyDict, KeyPeers)[1] = "String"
     /\ Len(BTreeGet(BodyDict, KeyPeers)[2]) % 6 = 0)
    => LET b == BTreeGet(BodyDict, KeyPeers)[2]
       IN  /\ tres.ok
           /\ Len(tres.val.peers) = Len(b) \div 6
           /\ \A j \in 1..(Len(b) \div 6) :
                tres.val.peers[j] =
                    [peer_id |-> <<"None">>,
                     addr    |-> <<"V4",
                                   <<b[6 * j - 5], b[6 * j - 4], b[6 * j - 3], b[6 * j - 2]>>,
                                   b[6 * j - 1] * 256 + b[6 * j]>>]

C20_Witness ==
    /\ Announced
    /\ tres.ok
    /\ Len(tres.val.peers) = 3
    /\ tres.val.peers[1] = [peer_id |-> <<"None">>, addr |-> <<"V4", <<1, 2, 3, 4>>, 258>>]
    /\ tres.val.peers[2] = [peer_id |-> <<"None">>, addr |-> <<"V4", <<10, 0, 0, 1>>, 6881>>]
    /\ tres.val.interval = 1800

(***************************************************************************)
(* Metainfo: pieces and the two file modes                                 *)
(***************************************************************************)

\* The info dictionary that mdata[i] encodes.
InfoDict(i) == from_slice(mdata[i], overflow_checks).val[2]

Bound(i) == minfo[i] # NoResult

\* The fields that Info::from_bencode reads before `pieces` are present and
\* well-formed in mdata[i], and `pieces` is a byte string.
ReachesPieces(i) ==
    /\ BTreeHas(InfoDict(i), KeyName)
    /\ Tag(BTreeGet(InfoDict(i), KeyName)) = "String"
    /\ BTreeHas(InfoDict(i), KeyPieceLength)
    /\ Tag(BTreeGet(InfoDict(i), KeyPieceLength)) = "Int"
    /\ Payload(BTreeGet(InfoDict(i), KeyPieceLength)) >= 0
    /\ BTreeHas(InfoDict(i), KeyPieces)
    /\ Tag(BTreeGet(InfoDict(i), KeyPieces)) = "String"

PiecesBytes(i) == Payload(BTreeGet(InfoDict(i), KeyPieces))

\* C21: an info dictionary whose `pieces` string has a length that is not a
\* multiple of 20 fails with InvalidPiecesLength; a `pieces` string of 20*k
\* bytes gives exactly k fingerprints, the j-th being bytes 20(j-1)+1..20j.
C21_InvalidPiecesLength ==
    \A i \in 1..2 :
        (Bound(i) /\ ReachesPieces(i)) =>
            /\ Len(PiecesBytes(i)) % 20 # 0 => minfo[i] = Err(<<"InvalidPiecesLength">>)
            /\ (Len(PiecesBytes(i)) % 20 = 0 /\ minfo[i].ok) =>
                 /\ Len(minfo[i].val.pieces) * 20 = Len(PiecesBytes(i))
                 /\ \A j \in 1..Len(minfo[i].val.pieces) :
                      /\ Len(minfo[i].val.pieces[j]) = 20
                      /\ \A b \in 1..20 :
                           minfo[i].val.pieces[j][b] = PiecesBytes(i)[20 * (j - 1) + b]

\* The components of a `path` list joined by the separator.
RECURSIVE JoinPath(_)
JoinPath(list) ==
    IF list = <<>> THEN <<>>
    ELSE IF Len(list) = 1 THEN Payload(list[1])
    ELSE Payload(list[1]) \o <<47>> \o JoinPath(Tail(list))

SingleFileMode(i) ==
    /\ BTreeHas(InfoDict(i), KeyLength)
    /\ Tag(BTreeGet(InfoDict(i), KeyLength)) = "Int"

MultiFileMode(i) ==
    /\ ~BTreeHas(InfoDict(i), KeyLength)
    /\ BTreeHas(InfoDict(i), KeyFiles)
    /\ Tag(BTreeGet(InfoDict(i), KeyFiles)) = "List"

TorrentName(i) == Payload(BTreeGet(InfoDict(i), KeyName))

FilesList(i) == Payload(BTreeGet(InfoDict(i), KeyFiles))

\* C22: a bound info dictionary with an integer `length` has exactly one File,
\* of that length and with the torrent name as its path, and an empty top-level
\* name; one with a `files` list and no `length` has one File per list entry in
\* list order, each with the entry's length and joined path, and keeps the
\* torrent name.
C22_FileModes ==
    \A i \in 1..2 :
        (Bound(i) /\ minfo[i].ok) =>
            /\ SingleFileMode(i) =>
                 /\ minfo[i].val.files =
                      <<[length |-> Payload(BTreeGet(InfoDict(i), KeyLength)),
                         path |-> TorrentName(i)]>>
                 /\ minfo[i].val.name = <<>>
            /\ MultiFileMode(i) =>
                 /\ Len(minfo[i].val.files) = Len(FilesList(i))
                 /\ \A j \in 1..Len(FilesList(i)) :
                      /\ minfo[i].val.files[j].length =
                           Payload(BTreeGet(Payload(FilesList(i)[j]), KeyLength))
                      /\ minfo[i].val.files[j].path =
                           JoinPath(Payload(BTreeGet(Payload(FilesList(i)[j]), KeyPath)))
                 /\ minfo[i].val.name = TorrentName(i)
            /\ SingleFileMode(i) \/ MultiFileMode(i)

\* A multi-file dictionary of two files is bound, from an encoding with the keys
\* out of order.
C22_Witness ==
    /\ Bound(2) /\ minfo[2].ok
    /\ MultiFileMode(2)
    /\ Len(minfo[2].val.files) = 2
    /\ minfo[2].val.files[1].path = <<Ord("a"), 47, Ord("b")>>
    /\ minfo[2].val.files[2].length = 5
    /\ minfo[2].val.name = Str(<<"x">>)

(***************************************************************************)
(* BitField                                                                *)
(***************************************************************************)

\* Bit i of a byte counted from the high-order end: index 0 is 0x80, index 7 is
\* 0x01.
HighOrderBit(byte, i) == (byte \div 2^(7 - i)) % 2 = 1

\* C23: get_bit(i) for i in 0..7 is the bit counted from the high-order end of
\* the byte, and the iterator yields the bits in that order, high-order bit
\* first.
C23_HighOrderFirst ==
    /\ got # <<>> => got[2] = HighOrderBit(bf_value, got[1])
    /\ \A k \in 1..Len(yielded) : yielded[k] = HighOrderBit(bit_field, k - 1)

(***************************************************************************)
(* Codec: encodings cut short                                              *)
(***************************************************************************)

\* d is a concatenation of whole encodings (the elements of a list read so far).
RECURSIVE WholeItems(_)
WholeItems(d) == d = <<>> \/ (Wire(d).ok /\ WholeItems(Wire(d).rest))

\* An integer with at least one digit and no terminating 'e'.
CutInteger(d) ==
    /\ d # <<>> /\ d[1] = Ord("i")
    /\ \E j \in 2..Len(d) : IsDigit(d[j])
    /\ \A j \in 1..Len(d) : d[j] # Ord("e")

\* A byte string cut short: the input starts with the length.
CutString(d) == d # <<>> /\ IsDigit(d[1])

\* A list whose input ends where the next element or the terminator is expected.
CutListAtElement(d) == d # <<>> /\ d[1] = Ord("l") /\ WholeItems(Tail(d))

\* A dictionary whose input ends before its terminator.
CutDictionary(d) == d # <<>> /\ d[1] = Ord("d")

\* C24: no proper prefix of an encoding decodes successfully; a cut byte string
\* and a cut integer with a digit give UnexpectedEOF, a list cut where an element
\* or the terminator is expected gives InvalidList, a cut dictionary gives
\* InvalidDictionary.
C24_NoPrefixDecodes ==
    (bpc # "start" /\ data \in Truncations) =>
        /\ ~decoded.ok
        /\ CutString(data) => decoded = Err("UnexpectedEOF")
        /\ CutInteger(data) => decoded = Err("UnexpectedEOF")
        /\ CutListAtElement(data) => decoded = Err("InvalidList")
        /\ CutDictionary(data) => decoded = Err("InvalidDictionary")

\* A list of one integer without its terminator was decoded.
C24_Witness ==
    /\ bpc = "decoded"
    /\ data = Str(<<"l","i","7","e">>)
    /\ decoded = Err("InvalidList")

(***************************************************************************)
(* Session                                                                 *)
(***************************************************************************)

\* A Config was obtained (and given to Client::new).
ConfigObtained == cpc \in {"client", "download", "bind_err", "done"}

\* C25: a Config with a worker count of zero is never obtained: every Config
\* that reaches Client::new has connection_numbers >= 1.
C25_ConfigNonZero == ConfigObtained => connection_numbers >= 1

\* C26: download makes exactly one announce; when the announce fails download
\* returns that error and nothing is given to the worker pool; when it succeeds
\* every peer of the response is given to the worker pool before download
\* returns Ok.
C26_AnnounceThenPool ==
    cpc = "done" =>
        /\ announces = 1
        /\ ~torrent_info.ok =>
             download_result = PeersRetrieve(torrent_info) /\ leeched = <<>>
        /\ torrent_info.ok =>
             download_result.ok /\ leeched = torrent_info.val.peers

(***************************************************************************)
(* Worker: errors of one connection                                        *)
(***************************************************************************)

\* C27: an error of connect, of the handshake or of recv ends the worker's use
\* of that connection: after a failed connect or handshake the worker is at the
\* next peer without having called recv, and recv is never called again on a
\* connection whose recv returned an error.
C27_ErrorsTerminal ==
    /\ io = "connect_err" => (wpc = "next_peer" /\ received = <<>>)
    /\ Failed => (wpc = "next_peer" /\ received = <<>>)
    /\ \A k \in 1..(Len(received) - 1) : received[k].ok
    /\ (received # <<>> /\ ~received[Len(received)].ok) => wpc = "next_peer"

(***************************************************************************)
(* Worker pool                                                             *)
(***************************************************************************)

\* C28: the worker pool terminates: as long as Leeching::new has not returned,
\* some thread of the pool can take a step (no worker stays blocked for ever on
\* the queue or on its lock, and the join completes).
C28_PoolTerminates == lpc = "returned" \/ ENABLED PoolNext

\* C29: the number of worker threads launched equals the connection_numbers of
\* the client's Config.
C29_WorkerCount == lpc \in {"join", "returned"} => spawned = connection_numbers

\* The worker has a peer in hand.
HasPeer(w) == peering[w].pc \in {"drop", "connect", "loop"}

C30_State ==
    /\ \A i, j \in 1..Len(taken) : i # j => taken[i][2] # taken[j][2]
    /\ \A k \in 1..Len(free_peers) : \A i \in 1..Len(taken) : free_peers[k] # taken[i][2]
    /\ lpc # "send" => Len(taken) + Len(free_peers) = Len(peers_given)
    /\ \A w \in 1..spawned : (guard = w) <=> (peering[w].pc \in {"recv", "drop"})
    /\ \A w \in 1..spawned :
         HasPeer(w) => \E i \in 1..Len(taken) : taken[i] = <<w, peering[w].peer>>
    /\ \A v, w \in 1..spawned :
         (v # w /\ HasPeer(v) /\ HasPeer(w)) => peering[v].peer # peering[w].peer

C30_Step ==
    taken' # taken =>
        /\ Len(taken') = Len(taken) + 1
        /\ SubSeq(taken', 1, Len(taken)) = taken
        /\ free_peers = <<taken'[Len(taken')][2]>> \o free_peers'
        /\ guard = taken'[Len(taken')][1]

\* C30: under every interleaving each peer pushed to the queue is taken by at
\* most one worker and each pop removes exactly one peer; the lock is held only
\* for the pop and is released before the worker connects, so no two workers
\* handle the same peer.
C30_OneWorkerPerPeer == [](C30_State) /\ [][C30_Step]_vars

\* Two workers are in their inner loops, each on its own peer.
C30_Witness ==
    /\ Len(taken) = 2
    /\ \E v, w \in 1..spawned :
         /\ v # w
         /\ peering[v].pc = "loop" /\ peering[w].pc = "loop"
         /\ peering[v].peer = 2 /\ peering[w].peer = 1
         /\ v < w
    /\ guard # 0

====
